---- MODULE Spec2Model ----
(***************************************************************************)
(* Template Resolution & Generation Engine of marcusrbrown/containers      *)
(* (scripts/template_engine.py, class TemplateEngine).                     *)
(*                                                                         *)
(* Python values are tagged records [t, v]; a dict is the sequence of its  *)
(* <<key, value>> items in insertion order, as CPython keeps it.           *)
(***************************************************************************)
EXTENDS Integers, Sequences, FiniteSets, TLC

\* store: the template directories under templates_dir
\* cache: TemplateEngine._template_cache
\* disk:  the files under the output directories, path -> content
\* call:  the call made on the engine, with what it returned or raised
\* heap:  the dict objects of the interpreter, where a claim is about which
\*        object a name refers to; empty elsewhere
VARIABLES store, cache, disk, call, heap

vars == <<store, cache, disk, call, heap>>

---------------------------------------------------------------------------
(* Python values *)

PyStr(s) == [t |-> "str", v |-> s]
PyInt(i) == [t |-> "int", v |-> i]
PyBool(b) == [t |-> "bool", v |-> b]
PyList(q) == [t |-> "list", v |-> q]
PyDict(items) == [t |-> "dict", v |-> items]
PyNone == [t |-> "NoneType", v |-> "None"]

IsDict(x) == x.t = "dict"

Keys(d) == {d.v[i][1] : i \in 1..Len(d.v)}

HasKey(d, k) == \E i \in 1..Len(d.v) : d.v[i][1] = k

IndexOf(d, k) == CHOOSE i \in 1..Len(d.v) : d.v[i][1] = k

Get(d, k) == d.v[IndexOf(d, k)][2]

\* d[k] = x : an existing key keeps its position, a new key goes last
SetItem(d, k, x) ==
    IF HasKey(d, k)
    THEN PyDict([d.v EXCEPT ![IndexOf(d, k)] = <<k, x>>])
    ELSE PyDict(Append(d.v, <<k, x>>))

\* d.pop(k, None)
Pop(d, k) ==
    IF HasKey(d, k)
    THEN PyDict(SubSeq(d.v, 1, IndexOf(d, k) - 1) \o SubSeq(d.v, IndexOf(d, k) + 1, Len(d.v)))
    ELSE d

\* d.get(k, dflt)
GetOr(d, k, dflt) == IF HasKey(d, k) THEN Get(d, k) ELSE dflt

---------------------------------------------------------------------------
(* Strings and the regular expressions of the re module *)

Lower == {"a", "b", "c", "d", "e", "f", "g", "h", "i", "j", "k", "l", "m",
          "n", "o", "p", "q", "r", "s", "t", "u", "v", "w", "x", "y", "z"}

Upper == {"A", "B", "C", "D", "E", "F", "G", "H", "I", "J", "K", "L", "M",
          "N", "O", "P", "Q", "R", "S", "T", "U", "V", "W", "X", "Y", "Z"}

Digits == {"0", "1", "2", "3", "4", "5", "6", "7", "8", "9"}

IdentifierStart == Lower \cup Upper \cup {"_"}

IdentifierPart == Lower \cup Upper \cup Digits \cup {"_"}

\* the characters of each string the model matches against a pattern or a suffix
Chars(s) ==
    CASE s = "" -> <<>>
      [] s = "abc" -> <<"a", "b", "c">>
      [] s = "ABC" -> <<"A", "B", "C">>
      [] s = "abc1" -> <<"a", "b", "c", "1">>
      [] s = "abc\n" -> <<"a", "b", "c", "\n">>
      [] s = "info" -> <<"i", "n", "f", "o">>
      [] s = "debug" -> <<"d", "e", "b", "u", "g">>
      [] s = "warn" -> <<"w", "a", "r", "n">>
      [] s = "80" -> <<"8", "0">>
      [] s = "port" -> <<"p", "o", "r", "t">>
      [] s = "extra" -> <<"e", "x", "t", "r", "a">>
      [] s = "log_level" -> <<"l", "o", "g", "_", "l", "e", "v", "e", "l">>
      [] s = "log-level" -> <<"l", "o", "g", "-", "l", "e", "v", "e", "l">>
      [] s = "template_name" ->
           <<"t", "e", "m", "p", "l", "a", "t", "e", "_", "n", "a", "m", "e">>
      [] s = "port=80" -> <<"p", "o", "r", "t", "=", "8", "0">>
      [] s = "log_level=info" ->
           <<"l", "o", "g", "_", "l", "e", "v", "e", "l", "=", "i", "n", "f", "o">>
      [] s = "log_level=debug" ->
           <<"l", "o", "g", "_", "l", "e", "v", "e", "l", "=", "d", "e", "b", "u", "g">>
      [] s = "extra=a=b" -> <<"e", "x", "t", "r", "a", "=", "a", "=", "b">>
      [] s = "Dockerfile" -> <<"D", "o", "c", "k", "e", "r", "f", "i", "l", "e">>
      [] s = "tmp/Dockerfile" ->
           <<"t", "m", "p", "/", "D", "o", "c", "k", "e", "r", "f", "i", "l", "e">>
      [] s = "tmp/app.conf" -> <<"t", "m", "p", "/", "a", "p", "p", ".", "c", "o", "n", "f">>

\* re.compile, for the patterns in use: a sequence of character classes, each
\* taken once ("1"), one or more times ("+") or any number of times ("*")
Compile(pattern) ==
    CASE pattern = "^[a-z]+$" ->
           [caret |-> TRUE, items |-> <<[cls |-> Lower, q |-> "+"]>>, dollar |-> TRUE]
      [] pattern = "[a-z]+" ->
           [caret |-> FALSE, items |-> <<[cls |-> Lower, q |-> "+"]>>, dollar |-> FALSE]
      [] pattern = "^[a-zA-Z_][a-zA-Z0-9_]*$" ->
           [caret |-> TRUE,
            items |-> <<[cls |-> IdentifierStart, q |-> "1"],
                        [cls |-> IdentifierPart, q |-> "*"]>>,
            dollar |-> TRUE]

\* the offset up to which the characters of s after offset pos are all in cls
RECURSIVE RunEnd(_, _, _)
RunEnd(cls, s, pos) ==
    IF pos < Len(s) /\ s[pos + 1] \in cls THEN RunEnd(cls, s, pos + 1) ELSE pos

\* the offsets at which a match of items[i..], begun at offset pos of s, can end
RECURSIVE MatchEnds(_, _, _, _)
MatchEnds(items, i, s, pos) ==
    IF i > Len(items) THEN {pos}
    ELSE UNION {MatchEnds(items, i + 1, s, e) :
                    e \in CASE items[i].q = "1" -> (pos + 1)..(IF RunEnd(items[i].cls, s, pos) > pos THEN pos + 1 ELSE pos)
                            [] items[i].q = "+" -> (pos + 1)..RunEnd(items[i].cls, s, pos)
                            [] items[i].q = "*" -> pos..RunEnd(items[i].cls, s, pos)}

\* where $ matches: at the end, and just before a newline that ends the string
AtDollar(s, e) == e = Len(s) \/ (e = Len(s) - 1 /\ s[Len(s)] = "\n")

MatchAt(c, s, start) ==
    \E e \in MatchEnds(c.items, 1, s, start) : c.dollar => AtDollar(s, e)

\* re.match(pattern, string) is not None: a match that begins at offset 0
re_match(pattern, string) == MatchAt(Compile(pattern), Chars(string), 0)

\* re.search(pattern, string) is not None: a match that begins anywhere
re_search(pattern, string) ==
    LET c == Compile(pattern)
        s == Chars(string)
    IN \E start \in (IF c.caret THEN {0} ELSE 0..Len(s)) : MatchAt(c, s, start)

\* re.fullmatch(pattern, string) is not None: a match of the whole string
re_fullmatch(pattern, string) ==
    LET c == Compile(pattern)
        s == Chars(string)
    IN Len(s) \in MatchEnds(c.items, 1, s, 0)

---------------------------------------------------------------------------
(* TemplateEngine._get_template_schema, and jsonschema.validate for the     *)
(* keywords the schema uses                                                 *)

StrList(q) == PyList([i \in 1..Len(q) |-> PyStr(q[i])])

OfType(ty) == PyDict(<<<<"type", PyStr(ty)>>>>)

ArrayOfStrings == PyDict(<<<<"type", PyStr("array")>>, <<"items", OfType("string")>>>>)

ParameterSchema ==
    PyDict(<<
        <<"type", PyStr("object")>>,
        <<"required", StrList(<<"type", "description">>)>>,
        <<"properties", PyDict(<<
            <<"type", PyDict(<<<<"type", PyStr("string")>>,
                               <<"enum", StrList(<<"string", "integer", "boolean", "array", "object">>)>>>>)>>,
            <<"description", OfType("string")>>,
            <<"default", PyDict(<<>>)>>,
            <<"required", OfType("boolean")>>,
            <<"enum", OfType("array")>>,
            <<"pattern", OfType("string")>>,
            <<"min", OfType("number")>>,
            <<"max", OfType("number")>>
        >>)>>
    >>)

_get_template_schema ==
    PyDict(<<
        <<"type", PyStr("object")>>,
        <<"required", StrList(<<"name", "version", "description", "category">>)>>,
        <<"properties", PyDict(<<
            <<"name", OfType("string")>>,
            <<"version", OfType("string")>>,
            <<"description", OfType("string")>>,
            <<"category", PyDict(<<<<"type", PyStr("string")>>,
                                   <<"enum", StrList(<<"app", "database", "infrastructure",
                                                       "microservice", "base">>)>>>>)>>,
            <<"author", OfType("string")>>,
            <<"license", OfType("string")>>,
            <<"tags", ArrayOfStrings>>,
            <<"inherits", OfType("string")>>,
            <<"parameters", PyDict(<<
                <<"type", PyStr("object")>>,
                <<"patternProperties", PyDict(<<
                    <<"^[a-zA-Z_][a-zA-Z0-9_]*$", ParameterSchema>> >>)>>
            >>)>>,
            <<"files", PyDict(<<
                <<"type", PyStr("object")>>,
                <<"required", StrList(<<"dockerfile">>)>>,
                <<"properties", PyDict(<<
                    <<"dockerfile", OfType("string")>>,
                    <<"compose", OfType("string")>>,
                    <<"config", ArrayOfStrings>>,
                    <<"scripts", ArrayOfStrings>>,
                    <<"docs", ArrayOfStrings>>
                >>)>>
            >>)>>,
            <<"dependencies", PyDict(<<
                <<"type", PyStr("object")>>,
                <<"properties", PyDict(<<
                    <<"build", ArrayOfStrings>>,
                    <<"runtime", ArrayOfStrings>>,
                    <<"test", ArrayOfStrings>>
                >>)>>
            >>)>>,
            <<"testing", PyDict(<<
                <<"type", PyStr("object")>>,
                <<"properties", PyDict(<<
                    <<"build_args", OfType("object")>>,
                    <<"env_vars", OfType("object")>>,
                    <<"health_check", OfType("string")>>,
                    <<"test_commands", ArrayOfStrings>>,
                    <<"integration_tests", ArrayOfStrings>>
                >>)>>
            >>)>>,
            <<"platforms", ArrayOfStrings>>,
            <<"registry", PyDict(<<
                <<"type", PyStr("object")>>,
                <<"properties", PyDict(<<
                    <<"namespace", OfType("string")>>,
                    <<"repository", OfType("string")>>,
                    <<"tags", ArrayOfStrings>>
                >>)>>
            >>)>>
        >>)>>
    >>)

\* the "type" keyword: a bool is neither an integer nor a number to jsonschema
IsOfJsonType(instance, ty) ==
    CASE ty = "object" -> instance.t = "dict"
      [] ty = "array" -> instance.t = "list"
      [] ty = "string" -> instance.t = "str"
      [] ty = "boolean" -> instance.t = "bool"
      [] ty = "integer" -> instance.t = "int"
      [] ty = "number" -> instance.t = "int"

\* jsonschema.validate(instance, schema) raises no ValidationError
RECURSIVE IsValid(_, _)
IsValid(instance, schema) ==
    /\ HasKey(schema, "type") => IsOfJsonType(instance, Get(schema, "type").v)
    /\ HasKey(schema, "enum") =>
          \E i \in 1..Len(Get(schema, "enum").v) : Get(schema, "enum").v[i] = instance
    /\ (HasKey(schema, "required") /\ IsDict(instance)) =>
          \A i \in 1..Len(Get(schema, "required").v) :
              HasKey(instance, Get(schema, "required").v[i].v)
    /\ (HasKey(schema, "properties") /\ IsDict(instance)) =>
          \A i \in 1..Len(instance.v) :
              HasKey(Get(schema, "properties"), instance.v[i][1]) =>
                  \A sub \in {Get(Get(schema, "properties"), instance.v[i][1])} :
                      IsValid(instance.v[i][2], sub)
    /\ (HasKey(schema, "patternProperties") /\ IsDict(instance)) =>
          \A j \in 1..Len(Get(schema, "patternProperties").v) :
              \A i \in 1..Len(instance.v) :
                  re_search(Get(schema, "patternProperties").v[j][1], instance.v[i][1]) =>
                      \A sub \in {Get(schema, "patternProperties").v[j][2]} :
                          IsValid(instance.v[i][2], sub)
    /\ (HasKey(schema, "items") /\ instance.t = "list") =>
          \A sub \in {Get(schema, "items")} :
              \A i \in 1..Len(instance.v) : IsValid(instance.v[i], sub)

---------------------------------------------------------------------------
(* TemplateEngine._deep_merge *)

\* dict.update: what _deep_merge would be without the recursion
ShallowUpdate(base, override) ==
    LET RECURSIVE Loop(_, _)
        Loop(result, i) ==
            IF i > Len(override.v) THEN result
            ELSE Loop(SetItem(result, override.v[i][1], override.v[i][2]), i + 1)
    IN Loop(base, 1)

RECURSIVE _deep_merge(_, _)
_deep_merge(base, override) ==
    LET RECURSIVE Loop(_, _)
        Loop(result, i) ==
            IF i > Len(override.v) THEN result
            ELSE LET key == override.v[i][1]
                     value == override.v[i][2]
                 IN IF HasKey(result, key) /\ IsDict(Get(result, key)) /\ IsDict(value)
                    THEN Loop(SetItem(result, key, _deep_merge(Get(result, key), value)), i + 1)
                    ELSE Loop(SetItem(result, key, value), i + 1)
    IN Loop(base, 1)

---------------------------------------------------------------------------
(* TemplateEngine.load_template_metadata and resolve_inheritance *)

Ok(x) == [exc |-> "none", val |-> x]

Raise(e) == [exc |-> e, val |-> PyNone]

\* a template directory of the store: its template.yaml as yaml.safe_load reads it
\* and its source files, name -> what rendering the file does
NoTemplate == [t |-> "absent", yaml |-> PyNone, sources |-> <<>>]

TemplateDirWith(metadata, sources) == [t |-> "dir", yaml |-> metadata, sources |-> sources]

TemplateDir(metadata) == TemplateDirWith(metadata, <<>>)

\* the value returned or the exception raised; the caller of this operator
\* puts a returned definition in _template_cache
load_template_metadata(st, template_path) ==
    IF st[template_path].t = "absent" THEN Raise("FileNotFoundError")
    ELSE IF ~IsValid(st[template_path].yaml, _get_template_schema) THEN Raise("ValidationError")
    ELSE Ok(st[template_path].yaml)

\* the merge without the removal of the parent reference
MergeKeepingInherits(parent_metadata, metadata) == _deep_merge(parent_metadata, metadata)

\* merged = _deep_merge(parent, child); merged.pop("inherits", None)
MergeWithParent(parent_metadata, metadata) ==
    Pop(_deep_merge(parent_metadata, metadata), "inherits")

\* frames of resolve_inheritance the interpreter allows before RecursionError
RecursionLimit == 5

\* lines 208-214, once the parent chain is resolved
ResolveMerge(template_path, metadata, parent_metadata) ==
    IF parent_metadata.exc # "none"
    THEN [exc |-> parent_metadata.exc, val |-> PyNone,
          loaded |-> <<template_path>> \o parent_metadata.loaded]
    ELSE [exc |-> "none",
          val |-> MergeWithParent(parent_metadata.val, metadata),
          loaded |-> <<template_path>> \o parent_metadata.loaded]

\* [exc, val, loaded]: loaded lists the templates whose definitions were
\* loaded (and cached) on the way, in order
RECURSIVE resolve_inheritance(_, _, _)
ResolveLoaded(st, template_path, depth, metadata) ==
    IF metadata.exc # "none"
    THEN [exc |-> metadata.exc, val |-> PyNone, loaded |-> <<>>]
    ELSE IF ~HasKey(metadata.val, "inherits")
    THEN [exc |-> "none", val |-> metadata.val, loaded |-> <<template_path>>]
    ELSE ResolveMerge(template_path, metadata.val,
                      resolve_inheritance(st, Get(metadata.val, "inherits").v, depth + 1))

resolve_inheritance(st, template_path, depth) ==
    IF depth > RecursionLimit
    THEN [exc |-> "RecursionError", val |-> PyNone, loaded |-> <<>>]
    ELSE ResolveLoaded(st, template_path, depth, load_template_metadata(st, template_path))

\* self._template_cache[template_path] = metadata, for each load in order
RECURSIVE CacheAll(_, _, _)
CacheAll(c, st, loaded) ==
    IF loaded = <<>> THEN c
    ELSE CacheAll(SetItem(c, Head(loaded), st[Head(loaded)].yaml), st, Tail(loaded))

---------------------------------------------------------------------------
(* TemplateEngine._validate_parameter and _prepare_parameters *)

\* isinstance(value, int): bool is a subclass of int
IsInstanceInt(value) == value.t \in {"int", "bool"}

\* the number a bool or an int compares as: True == 1, False == 0
AsNum(value) == IF value.t = "bool" THEN (IF value.v THEN 1 ELSE 0) ELSE value.v

\* a == b
RECURSIVE PyEq(_, _)
PyEq(a, b) ==
    IF IsInstanceInt(a) /\ IsInstanceInt(b) THEN AsNum(a) = AsNum(b)
    ELSE IF a.t # b.t THEN FALSE
    ELSE IF a.t = "list"
    THEN Len(a.v) = Len(b.v) /\ \A i \in 1..Len(a.v) : PyEq(a.v[i], b.v[i])
    ELSE IF a.t = "dict"
    THEN Keys(a) = Keys(b) /\ \A k \in Keys(a) : PyEq(Get(a, k), Get(b, k))
    ELSE a.v = b.v

\* value in lst
PyIn(value, lst) == \E i \in 1..Len(lst.v) : PyEq(lst.v[i], value)

NoError(name) == [exc |-> "none", param |-> name, rule |-> "none"]

ValueError(name, rule) == [exc |-> "ValueError", param |-> name, rule |-> rule]

\* lines 333-342: the declared type and the isinstance test that goes with it
TypeCheckFails(param_type, value) ==
    \/ param_type = "string" /\ value.t # "str"
    \/ param_type = "integer" /\ ~IsInstanceInt(value)
    \/ param_type = "boolean" /\ value.t # "bool"
    \/ param_type = "array" /\ value.t # "list"
    \/ param_type = "object" /\ value.t # "dict"

\* an engine without the enum check
EnumCheckSkipped(value, definition) == FALSE

\* line 345
EnumCheckFails(value, definition) ==
    HasKey(definition, "enum") /\ ~PyIn(value, Get(definition, "enum"))

\* line 349-350
PatternCheckFails(param_type, value, definition) ==
    /\ param_type = "string"
    /\ HasKey(definition, "pattern")
    /\ ~re_match(Get(definition, "pattern").v, value.v)

\* line 357
BelowMin(value, definition) ==
    HasKey(definition, "min") /\ AsNum(value) < Get(definition, "min").v

\* a max bound that rejects the bound itself
AboveMaxOffByOne(value, definition) ==
    HasKey(definition, "max") /\ AsNum(value) >= Get(definition, "max").v

\* line 359
AboveMax(value, definition) ==
    HasKey(definition, "max") /\ AsNum(value) > Get(definition, "max").v

\* lines 332-360, with the declared type at hand
ValidateTyped(name, value, definition, param_type) ==
    IF TypeCheckFails(param_type, value) THEN ValueError(name, "type")
    ELSE IF EnumCheckFails(value, definition) THEN ValueError(name, "enum")
    ELSE IF PatternCheckFails(param_type, value, definition) THEN ValueError(name, "pattern")
    ELSE IF param_type \in {"integer", "number"} /\ BelowMin(value, definition)
    THEN ValueError(name, "min")
    ELSE IF param_type \in {"integer", "number"} /\ AboveMax(value, definition)
    THEN ValueError(name, "max")
    ELSE NoError(name)

\* what the call raises: nothing, or a ValueError naming the parameter and
\* the rule, or the KeyError of definition["type"]
_validate_parameter(name, value, definition) ==
    IF ~HasKey(definition, "type")
    THEN [exc |-> "KeyError", param |-> name, rule |-> "none"]
    ELSE ValidateTyped(name, value, definition, Get(definition, "type").v)

\* an engine that lets the declared default win over the provided value
ChooseValueDefaultFirst(param_name, param_def, provided_params) ==
    IF HasKey(param_def, "default") THEN [kind |-> "value", value |-> Get(param_def, "default")]
    ELSE IF HasKey(provided_params, param_name)
    THEN [kind |-> "value", value |-> Get(provided_params, param_name)]
    ELSE IF GetOr(param_def, "required", PyBool(FALSE)).v THEN [kind |-> "raise", value |-> PyNone]
    ELSE [kind |-> "continue", value |-> PyNone]

\* an engine that never asks whether a parameter is required
ChooseValueNothingRequired(param_name, param_def, provided_params) ==
    IF HasKey(provided_params, param_name)
    THEN [kind |-> "value", value |-> Get(provided_params, param_name)]
    ELSE IF HasKey(param_def, "default") THEN [kind |-> "value", value |-> Get(param_def, "default")]
    ELSE [kind |-> "continue", value |-> PyNone]

\* lines 313-320: the value to validate and bind, or raise, or continue
ChooseValue(param_name, param_def, provided_params) ==
    IF HasKey(provided_params, param_name)
    THEN [kind |-> "value", value |-> Get(provided_params, param_name)]
    ELSE IF HasKey(param_def, "default") THEN [kind |-> "value", value |-> Get(param_def, "default")]
    ELSE IF GetOr(param_def, "required", PyBool(FALSE)).v THEN [kind |-> "raise", value |-> PyNone]
    ELSE [kind |-> "continue", value |-> PyNone]

\* [exc, param, rule, val]: val is final_params when nothing is raised
PrepareResult(err, final_params) ==
    [exc |-> err.exc, param |-> err.param, rule |-> err.rule, val |-> final_params]

\* the loop of lines 312-324 from the i-th declared parameter on
RECURSIVE PrepareLoop(_, _, _, _)
PrepareStep(template_params, provided_params, final_params, i, chosen) ==
    IF chosen.kind = "raise"
    THEN PrepareResult(ValueError(template_params.v[i][1], "required"), PyNone)
    ELSE IF chosen.kind = "continue"
    THEN PrepareLoop(template_params, provided_params, final_params, i + 1)
    ELSE IF _validate_parameter(template_params.v[i][1], chosen.value, template_params.v[i][2]).exc # "none"
    THEN PrepareResult(_validate_parameter(template_params.v[i][1], chosen.value,
                                           template_params.v[i][2]), PyNone)
    ELSE PrepareLoop(template_params, provided_params,
                     SetItem(final_params, template_params.v[i][1], chosen.value), i + 1)

PrepareLoop(template_params, provided_params, final_params, i) ==
    IF i > Len(template_params.v) THEN PrepareResult(NoError("none"), final_params)
    ELSE PrepareStep(template_params, provided_params, final_params, i,
                     ChooseValue(template_params.v[i][1], template_params.v[i][2], provided_params))

\* final parameters that begin as whatever the caller provided
FinalParamsFromProvided(provided_params) == provided_params

\* line 309: final_params = {}
InitialFinalParams(provided_params) == PyDict(<<>>)

_prepare_parameters(metadata, provided_params) ==
    PrepareLoop(GetOr(metadata, "parameters", PyDict(<<>>)), provided_params,
                InitialFinalParams(provided_params), 1)

---------------------------------------------------------------------------
(* TemplateEngine.generate_template *)

\* str(Path(a) / b)
PathJoin(a, b) == a \o "/" \o b

\* a source file of a template directory: the variables its text uses, what
\* get_template or render raises on it, and the names Jinja's message mentions
SourceFile(uses) == [uses |-> uses, raises |-> "none", says |-> {}]

\* a source Jinja raises a TemplateError on, e.g. '{{ foo.bar }}' with foo undefined
BrokenSource == [uses |-> {}, raises |-> "TemplateError", says |-> {}]

\* a source Jinja raises a TemplateError on, with a message that names the template
BrokenSourceOf(template_path) == [uses |-> {}, raises |-> "TemplateError", says |-> {template_path}]

\* a source whose expressions raise something else, e.g. '{{ 1 / 0 }}'
CrashingSource == [uses |-> {}, raises |-> "ZeroDivisionError", says |-> {}]

\* what Jinja's default Undefined stands for: a variable nobody passed
Undefined == [t |-> "Undefined", v |-> ""]

\* template.render(**final_params): the text of the named source with the
\* value of each variable it uses
Render(name, source, final_params) ==
    [template |-> name, values |-> [n \in source.uses |-> GetOr(final_params, n, Undefined)]]

\* parameters or {}
OrEmpty(parameters) == IF parameters = PyNone THEN PyDict(<<>>) ELSE parameters

\* an engine that injects the time of the call as the template's name too
WithSystemParametersStampingName(final_params, metadata, now) ==
    SetItem(SetItem(SetItem(SetItem(final_params,
        "template_name", PyStr(now)),
        "template_version", Get(metadata, "version")),
        "generated_at", PyStr(now)),
        "generated_by", PyStr("container-template-engine"))

\* lines 257-264
WithSystemParameters(final_params, metadata, now) ==
    SetItem(SetItem(SetItem(SetItem(final_params,
        "template_name", Get(metadata, "name")),
        "template_version", Get(metadata, "version")),
        "generated_at", PyStr(now)),
        "generated_by", PyStr("container-template-engine"))

NotIterable == [t |-> "not iterable", v |-> ""]

\* lines 271-274: what the inner loop iterates over
PatternsOf(file_patterns) ==
    IF file_patterns.t = "str" THEN <<file_patterns>>
    ELSE IF file_patterns.t = "list" THEN file_patterns.v
    ELSE IF file_patterns.t = "dict"
    THEN [j \in 1..Len(file_patterns.v) |-> PyStr(file_patterns.v[j][1])]
    ELSE <<NotIterable>>

\* lines 270-274: the patterns of every file group, in the order of the loops
RECURSIVE AllPatterns(_, _)
AllPatterns(files, i) ==
    IF i > Len(files.v) THEN <<>>
    ELSE PatternsOf(files.v[i][2]) \o AllPatterns(files, i + 1)

\* an entry of the output tree that is a directory
Directory == [t |-> "directory", v |-> ""]

\* the components of a relative path, for the patterns tried
Parts(pattern) ==
    CASE pattern = "conf/app.conf" -> <<"conf", "app.conf">>
      [] OTHER -> <<pattern>>

\* (Path(dir) / parts).parent and its parents from dir on, outermost first
RECURSIVE ParentDirs(_, _)
ParentDirs(dir, parts) ==
    IF Len(parts) <= 1 THEN <<dir>>
    ELSE <<dir>> \o ParentDirs(PathJoin(dir, Head(parts)), Tail(parts))

\* mkdir(parents=True, exist_ok=True) of the last of dirs
RECURSIVE Mkdir(_, _)
Mkdir(dk, dirs) ==
    IF dirs = <<>> THEN dk
    ELSE Mkdir(IF HasKey(dk, Head(dirs)) THEN dk ELSE SetItem(dk, Head(dirs), Directory),
               Tail(dirs))

\* a write that leaves a file already at the path as it is
WriteFileKeepingExisting(dk, output_dir, pattern, content) ==
    IF HasKey(dk, PathJoin(output_dir, pattern)) THEN dk
    ELSE SetItem(Mkdir(dk, ParentDirs(output_dir, Parts(pattern))),
                 PathJoin(output_dir, pattern), content)

\* output_file.parent.mkdir(parents=True, exist_ok=True), then the write of
\* lines 288-289
WriteFile(dk, output_dir, pattern, content) ==
    SetItem(Mkdir(dk, ParentDirs(output_dir, Parts(pattern))),
            PathJoin(output_dir, pattern), content)

\* the progress of a generate_template call: the mapping built so far, the
\* output tree, the sources whose rendering was begun, the declarations
\* loaded and the resolved metadata
Progress(val, dk, rendered, loaded, metadata) ==
    [val |-> val, disk |-> dk, rendered |-> rendered, loaded |-> loaded, metadata |-> metadata]

\* [exc, param, rule, file, names, val, disk, rendered, loaded, metadata]: what
\* generate_template raises or returns, the names the message of a render
\* error mentions, and the progress made
GenerateResult(exc, param, rule, file, names, val, acc) ==
    [exc |-> exc, param |-> param, rule |-> rule, file |-> file, names |-> names, val |-> val,
     disk |-> acc.disk, rendered |-> acc.rendered, loaded |-> acc.loaded,
     metadata |-> acc.metadata]

\* an engine that writes whatever the dry-run flag says
EmitAlwaysWriting(acc, output_dir, pattern, content, dry_run) ==
    Progress(SetItem(acc.val, PathJoin(output_dir, pattern), content),
             WriteFile(acc.disk, output_dir, pattern, content),
             Append(acc.rendered, pattern), acc.loaded, acc.metadata)

\* an engine that returns only what it did not write
EmitForgettingWritten(acc, output_dir, pattern, content, dry_run) ==
    Progress(IF dry_run THEN SetItem(acc.val, PathJoin(output_dir, pattern), content) ELSE acc.val,
             IF dry_run THEN acc.disk
             ELSE WriteFile(acc.disk, output_dir, pattern, content),
             Append(acc.rendered, pattern), acc.loaded, acc.metadata)

\* an engine that keys the mapping by the declared path
EmitKeyedByPattern(acc, output_dir, pattern, content, dry_run) ==
    Progress(SetItem(acc.val, pattern, content),
             IF dry_run THEN acc.disk
             ELSE WriteFile(acc.disk, output_dir, pattern, content),
             Append(acc.rendered, pattern), acc.loaded, acc.metadata)

\* lines 283-289 for one rendered source
Emit(acc, output_dir, pattern, content, dry_run) ==
    Progress(SetItem(acc.val, PathJoin(output_dir, pattern), content),
             IF dry_run THEN acc.disk
             ELSE WriteFile(acc.disk, output_dir, pattern, content),
             Append(acc.rendered, pattern), acc.loaded, acc.metadata)

\* a loop that ends at the first pattern without a source file
AfterMissingNothing(patterns) == <<>>

\* lines 274-276: a pattern without a source file has no else branch; the
\* loop goes on with the patterns after it
AfterMissing(patterns) == Tail(patterns)

\* lines 274-292 for the patterns left
RECURSIVE GenerateLoop(_, _, _, _, _, _, _)
GenerateLoop(sources, template_path, output_dir, final_params, dry_run, patterns, acc) ==
    IF patterns = <<>>
    THEN GenerateResult("none", "none", "none", "none", {}, acc.val, acc)
    ELSE IF Head(patterns).t # "str"
    THEN GenerateResult("TypeError", "none", "none", "none", {}, PyNone, acc)
    ELSE IF Head(patterns).v \notin DOMAIN sources
    THEN GenerateLoop(sources, template_path, output_dir, final_params, dry_run,
                      AfterMissing(patterns), acc)
    ELSE IF sources[Head(patterns).v].raises = "TemplateError"
    THEN GenerateResult("TemplateError", "none", "none", Head(patterns).v,
                        {Head(patterns).v} \cup sources[Head(patterns).v].says, PyNone,
                        [acc EXCEPT !.rendered = Append(@, Head(patterns).v)])
    ELSE IF sources[Head(patterns).v].raises # "none"
    THEN GenerateResult(sources[Head(patterns).v].raises, "none", "none", "none", {}, PyNone,
                        [acc EXCEPT !.rendered = Append(@, Head(patterns).v)])
    ELSE GenerateLoop(sources, template_path, output_dir, final_params, dry_run, Tail(patterns),
                      Emit(acc, output_dir, Head(patterns).v,
                           Render(PathJoin(template_path, Head(patterns).v),
                                  sources[Head(patterns).v], final_params), dry_run))

\* an engine that looks for a source in the parent's directory where the
\* template's own has none
SourcesWithParent(st, template_path) ==
    LET own == st[template_path].sources
        parent == IF HasKey(st[template_path].yaml, "inherits")
                  THEN st[Get(st[template_path].yaml, "inherits").v].sources
                  ELSE <<>>
    IN [f \in DOMAIN own \cup DOMAIN parent |-> IF f \in DOMAIN own THEN own[f] ELSE parent[f]]

\* template_dir = self.templates_dir / template_path (lines 268 and 412):
\* the files that exist under it
SourcesOf(st, template_path) == st[template_path].sources

\* an engine that renders and writes the files before it looks at the parameters
GenerateRenderingFirst(st, dk, template_path, output_dir, dry_run, now, metadata, prepared, loaded) ==
    LET r == GenerateLoop(st[template_path].sources, template_path, output_dir,
                          WithSystemParameters(PyDict(<<>>), metadata, now), dry_run,
                          AllPatterns(GetOr(metadata, "files", PyDict(<<>>)), 1),
                          Progress(PyDict(<<>>), dk, <<>>, loaded, metadata))
    IN IF prepared.exc # "none"
       THEN [r EXCEPT !.exc = prepared.exc, !.param = prepared.param, !.rule = prepared.rule,
                      !.val = PyNone]
       ELSE r

\* lines 254-294, with the resolved metadata at hand
GenerateResolved(st, dk, template_path, output_dir, dry_run, now, metadata, prepared, loaded) ==
    IF prepared.exc # "none"
    THEN GenerateResult(prepared.exc, prepared.param, prepared.rule, "none", {}, PyNone,
                        Progress(PyNone, dk, <<>>, loaded, metadata))
    ELSE GenerateLoop(SourcesOf(st, template_path), template_path, output_dir,
                      WithSystemParameters(prepared.val, metadata, now), dry_run,
                      AllPatterns(GetOr(metadata, "files", PyDict(<<>>)), 1),
                      Progress(PyDict(<<>>), dk, <<>>, loaded, metadata))

generate_template(st, dk, template_path, output_dir, parameters, dry_run, now) ==
    LET resolved == resolve_inheritance(st, template_path, 1)
    IN IF resolved.exc # "none"
       THEN GenerateResult(resolved.exc, "none", "none", "none", {}, PyNone,
                           Progress(PyNone, dk, <<>>, resolved.loaded, PyNone))
       ELSE GenerateResolved(st, dk, template_path, output_dir, dry_run, now, resolved.val,
                             _prepare_parameters(resolved.val, OrEmpty(parameters)),
                             resolved.loaded)

---------------------------------------------------------------------------
(* TemplateEngine.validate_template *)

\* the entries of results["errors"]: which message, and the file it names
MissingFileError(pattern) == [kind |-> "Required file missing", file |-> pattern]

SyntaxError(pattern) == [kind |-> "Template syntax error", file |-> pattern]

ValidationFailed(exc) == [kind |-> "Template validation failed", file |-> "none", exc |-> exc]

\* lines 412-421: the errors appended for the patterns, and what the loop raises
RECURSIVE MissingFileErrors(_, _)
MissingFileErrors(sources, patterns) ==
    IF patterns = <<>> THEN [errors |-> <<>>, valid |-> TRUE, exc |-> "none"]
    ELSE IF Head(patterns).t # "str" THEN [errors |-> <<>>, valid |-> TRUE, exc |-> "TypeError"]
    ELSE LET rest == MissingFileErrors(sources, Tail(patterns))
         IN [errors |-> (IF Head(patterns).v \in DOMAIN sources THEN <<>>
                         ELSE <<MissingFileError(Head(patterns).v)>>) \o rest.errors,
             valid |-> IF Head(patterns).v \in DOMAIN sources THEN rest.valid ELSE FALSE,
             exc |-> rest.exc]

\* lines 424-447: the errors appended, the sources whose rendering was begun,
\* and what the loop raises: a TemplateError is caught at the file, anything
\* else leaves the loops
RECURSIVE RenderErrors(_, _)
RenderErrors(sources, patterns) ==
    IF patterns = <<>> THEN [errors |-> <<>>, valid |-> TRUE, rendered |-> <<>>, exc |-> "none"]
    ELSE IF Head(patterns).t # "str"
    THEN [errors |-> <<>>, valid |-> TRUE, rendered |-> <<>>, exc |-> "TypeError"]
    ELSE IF Head(patterns).v \notin DOMAIN sources THEN RenderErrors(sources, Tail(patterns))
    ELSE IF sources[Head(patterns).v].raises \notin {"none", "TemplateError"}
    THEN [errors |-> <<>>, valid |-> TRUE, rendered |-> <<Head(patterns).v>>,
          exc |-> sources[Head(patterns).v].raises]
    ELSE LET rest == RenderErrors(sources, Tail(patterns))
         IN [errors |-> (IF sources[Head(patterns).v].raises = "TemplateError"
                         THEN <<SyntaxError(Head(patterns).v)>> ELSE <<>>) \o rest.errors,
             valid |-> IF sources[Head(patterns).v].raises = "TemplateError" THEN FALSE
                       ELSE rest.valid,
             rendered |-> <<Head(patterns).v>> \o rest.rendered,
             exc |-> rest.exc]

\* results, with the sources whose rendering was begun, the declarations
\* loaded, and the exception that leaves validate_template
ValidateResults(valid, errors, metadata, rendered, loaded) ==
    [valid |-> valid, errors |-> errors, warnings |-> <<>>, metadata |-> metadata,
     rendered |-> rendered, loaded |-> loaded, raised |-> "none"]

\* the exceptions raised in the model, all of them subclasses of Exception
ExceptionClasses ==
    {"FileNotFoundError", "ValidationError", "RecursionError", "TypeError", "ZeroDivisionError",
     "TemplateError", "ValueError"}

\* a validate_template without the handler of lines 451-453
ExceptNothing(results, exc) ==
    IF exc = "none" THEN results ELSE [results EXCEPT !.raised = exc]

\* lines 451-455: what the try block raised is caught, or leaves the method
ExceptException(results, exc) ==
    IF exc = "none" THEN results
    ELSE IF exc \in ExceptionClasses
    THEN [results EXCEPT !.errors = Append(@, ValidationFailed(exc)), !.valid = FALSE]
    ELSE [results EXCEPT !.raised = exc]

\* lines 424-455, after the first loops returned
ValidateRendered(missing, render, metadata, loaded) ==
    ExceptException(ValidateResults(missing.valid /\ render.valid, missing.errors \o render.errors,
                                    metadata, render.rendered, loaded),
                    render.exc)

\* lines 408-455, with the resolved metadata at hand
ValidateResolved(sources, patterns, metadata, loaded) ==
    IF MissingFileErrors(sources, patterns).exc # "none"
    THEN ExceptException(ValidateResults(MissingFileErrors(sources, patterns).valid,
                                         MissingFileErrors(sources, patterns).errors,
                                         metadata, <<>>, loaded),
                         MissingFileErrors(sources, patterns).exc)
    ELSE ValidateRendered(MissingFileErrors(sources, patterns), RenderErrors(sources, patterns),
                          metadata, loaded)

validate_template(st, template_path) ==
    LET resolved == resolve_inheritance(st, template_path, 1)
    IN IF resolved.exc # "none"
       THEN ExceptException(ValidateResults(TRUE, <<>>, PyNone, <<>>, resolved.loaded),
                            resolved.exc)
       ELSE ValidateResolved(SourcesOf(st, template_path),
                             AllPatterns(GetOr(resolved.val, "files", PyDict(<<>>)), 1),
                             resolved.val, resolved.loaded)

---------------------------------------------------------------------------
(* The generate command: main of template_engine.py and                     *)
(* ContainerTemplateCLI.cmd_generate of containers_cli.py                   *)

\* the position of the first "=" among the characters from i on, or 0
RECURSIVE FirstEquals(_, _)
FirstEquals(chars, i) ==
    IF i > Len(chars) THEN 0
    ELSE IF chars[i] = "=" THEN i
    ELSE FirstEquals(chars, i + 1)

\* "".join(chars)
RECURSIVE Join(_)
Join(chars) == IF chars = <<>> THEN "" ELSE Head(chars) \o Join(Tail(chars))

\* param.split("=", 1)
Split(param) ==
    IF FirstEquals(Chars(param), 1) = 0 THEN <<param>>
    ELSE <<Join(SubSeq(Chars(param), 1, FirstEquals(Chars(param), 1) - 1)),
           Join(SubSeq(Chars(param), FirstEquals(Chars(param), 1) + 1, Len(Chars(param))))>>

\* a command that lets the first value given for a key stand
SetOverrideKeepingEarlier(params, key, value) ==
    IF HasKey(params, key) THEN params ELSE SetItem(params, key, PyStr(value))

\* params[key] = value
SetOverride(params, key, value) == SetItem(params, key, PyStr(value))

\* params.update(json.load(f)) when --params is given: the document read is
\* a mapping, or update raises
LoadParamsFile(params, params_file) ==
    IF params_file = PyNone THEN Ok(params)
    ELSE IF ~IsDict(params_file) THEN Raise("TypeError")
    ELSE Ok(ShallowUpdate(params, params_file))

\* the loop over args.param; an argument without "=" makes the unpacking in
\* main raise ValueError, and makes cmd_generate return 1
RECURSIVE ApplyOverrides(_, _, _)
ApplyOverrides(params, param, checks_format) ==
    IF param = <<>> THEN Ok(params)
    ELSE IF Len(Split(Head(param))) < 2
    THEN Raise(IF checks_format THEN "Invalid parameter format" ELSE "ValueError")
    ELSE ApplyOverrides(SetOverride(params, Split(Head(param))[1], Split(Head(param))[2]),
                        Tail(param), checks_format)

\* params as built before the engine is called: [exc, val]
ParseParameters(args, checks_format) ==
    IF LoadParamsFile(PyDict(<<>>), args.params).exc # "none"
    THEN LoadParamsFile(PyDict(<<>>), args.params)
    ELSE ApplyOverrides(LoadParamsFile(PyDict(<<>>), args.params).val, args.param, checks_format)

\* the outcome of a command: the exit status, the exception that left the
\* command, the parameters passed to the engine if it was called, what the
\* engine returned or raised, the output tree and the declarations loaded
CommandResult(exit, raised, passed, exc, val, dk, loaded) ==
    [exit |-> exit, raised |-> raised, passed |-> passed, exc |-> exc, val |-> val,
     disk |-> dk, loaded |-> loaded]

\* the call of the engine and what the command makes of it
CallEngine(st, dk, args, params, now) ==
    LET r == generate_template(st, dk, args.template, args.output, params, args.dry_run, now)
    IN CommandResult(IF r.exc = "none" THEN 0 ELSE 1, "none", params, r.exc, r.val,
                     r.disk, r.loaded)

\* main of template_engine.py, generate command
MainGenerate(st, dk, args, now) ==
    IF ParseParameters(args, FALSE).exc # "none"
    THEN CommandResult(1, ParseParameters(args, FALSE).exc, PyNone, "none", PyNone, dk, <<>>)
    ELSE CallEngine(st, dk, args, ParseParameters(args, FALSE).val, now)

\* ContainerTemplateCLI.cmd_generate; response is what the user answers
\* when asked whether to overwrite
cmd_generate(st, dk, args, response, now) ==
    IF ParseParameters(args, TRUE).exc = "TypeError"
    THEN CommandResult(1, "TypeError", PyNone, "none", PyNone, dk, <<>>)
    ELSE IF ParseParameters(args, TRUE).exc # "none"
    THEN CommandResult(1, "none", PyNone, "none", PyNone, dk, <<>>)
    ELSE IF HasKey(dk, args.output) /\ ~args.force /\ ~args.dry_run /\ response # "y"
    THEN CommandResult(1, "none", PyNone, "none", PyNone, dk, <<>>)
    ELSE CallEngine(st, dk, args, ParseParameters(args, TRUE).val, now)

---------------------------------------------------------------------------
(* The engine over objects: a dict is an object with an identity, a name or *)
(* an item refers to it, and an assignment to an item changes it for every  *)
(* name that refers to it                                                   *)

Ref(id) == [t |-> "ref", v |-> id]

IsRef(x) == x.t = "ref"

\* the memory of the interpreter: the dict objects by identity (an item is a
\* Ref or a value that is no dict), for each object what it held when
\* load_template_metadata returned it (PyNone if it was made otherwise), and
\* _template_cache, template_path -> Ref
Memory(objs, frozen, c) == [objs |-> objs, frozen |-> frozen, cache |-> c]

\* a new dict object
New(m, obj) == [m EXCEPT !.objs = Append(@, obj), !.frozen = Append(@, PyNone)]

\* the object id refers to, changed by [key] = x
StoreItem(m, id, key, x) == [m EXCEPT !.objs[id] = SetItem(@, key, x)]

\* the object id refers to, changed by .pop(key, None)
PopItem(m, id, key) == [m EXCEPT !.objs[id] = Pop(@, key)]

\* the value an item stands for, every Ref followed
RECURSIVE Deref(_, _)
Deref(objs, x) ==
    IF ~IsRef(x) THEN x
    ELSE PyDict([i \in 1..Len(objs[x.v].v) |->
                    <<objs[x.v].v[i][1], Deref(objs, objs[x.v].v[i][2])>>])

\* yaml.safe_load: one new object for every mapping of the document
RECURSIVE Parse(_, _)
RECURSIVE ParseItems(_, _, _, _)
ParseItems(m, items, i, acc) ==
    IF i > Len(items)
    THEN [m |-> [m EXCEPT !.objs = Append(@, PyDict(acc)), !.frozen = Append(@, PyDict(acc))],
          val |-> Ref(Len(m.objs) + 1)]
    ELSE ParseItems(Parse(m, items[i][2]).m, items, i + 1,
                    Append(acc, <<items[i][1], Parse(m, items[i][2]).val>>))

Parse(m, value) ==
    IF IsDict(value) THEN ParseItems(m, value.v, 1, <<>>) ELSE [m |-> m, val |-> value]

\* load_template_metadata: [exc, val, m]
LoadObject(st, m, template_path) ==
    IF load_template_metadata(st, template_path).exc # "none"
    THEN [exc |-> load_template_metadata(st, template_path).exc, val |-> PyNone, m |-> m]
    ELSE [exc |-> "none", val |-> Parse(m, st[template_path].yaml).val,
          m |-> [Parse(m, st[template_path].yaml).m EXCEPT
                    !.cache = SetItem(@, template_path, Parse(m, st[template_path].yaml).val)]]

\* a merge that works on base itself
NoCopy(m, id) == [m |-> m, id |-> id]

\* result = base.copy(): a new object with the items of base
Copy(m, id) == [m |-> New(m, m.objs[id]), id |-> Len(m.objs) + 1]

\* _deep_merge, lines 218-230: [m, val]
RECURSIVE DeepMergeObjects(_, _, _)
RECURSIVE DeepMergeLoop(_, _, _, _)
DeepMergeLoop(m, result, override, i) ==
    IF i > Len(m.objs[override].v) THEN [m |-> m, val |-> Ref(result)]
    ELSE IF /\ HasKey(m.objs[result], m.objs[override].v[i][1])
            /\ IsRef(Get(m.objs[result], m.objs[override].v[i][1]))
            /\ IsRef(m.objs[override].v[i][2])
    THEN LET merged == DeepMergeObjects(m, Get(m.objs[result], m.objs[override].v[i][1]).v,
                                        m.objs[override].v[i][2].v)
         IN DeepMergeLoop(StoreItem(merged.m, result, m.objs[override].v[i][1], merged.val),
                          result, override, i + 1)
    ELSE DeepMergeLoop(StoreItem(m, result, m.objs[override].v[i][1], m.objs[override].v[i][2]),
                       result, override, i + 1)

DeepMergeObjects(m, base, override) ==
    DeepMergeLoop(Copy(m, base).m, Copy(m, base).id, override, 1)

\* lines 208-214: the merge, then merged.pop("inherits", None)
ResolveMergeObjects(metadata, parent) ==
    IF parent.exc # "none" THEN parent
    ELSE LET merged == DeepMergeObjects(parent.m, parent.val.v, metadata)
         IN [exc |-> "none", val |-> merged.val, m |-> PopItem(merged.m, merged.val.v, "inherits")]

\* resolve_inheritance: [exc, val, m]
RECURSIVE ResolveObjects(_, _, _, _)
ResolveLoadedObject(st, depth, loaded) ==
    IF loaded.exc # "none" THEN loaded
    ELSE IF ~HasKey(loaded.m.objs[loaded.val.v], "inherits") THEN loaded
    ELSE ResolveMergeObjects(loaded.val.v,
                             ResolveObjects(st, loaded.m,
                                            Get(loaded.m.objs[loaded.val.v], "inherits").v,
                                            depth + 1))

ResolveObjects(st, m, template_path, depth) ==
    IF depth > RecursionLimit THEN [exc |-> "RecursionError", val |-> PyNone, m |-> m]
    ELSE ResolveLoadedObject(st, depth, LoadObject(st, m, template_path))

\* generate_template, lines 251-264: final_params is a new object, which the
\* update of line 257 changes; rendering reads (the files are left out)
GenerateObjects(st, m, template_path, parameters, now) ==
    LET resolved == ResolveObjects(st, m, template_path, 1)
        prepared == _prepare_parameters(Deref(resolved.m.objs, resolved.val), OrEmpty(parameters))
    IN IF resolved.exc # "none" THEN resolved
       ELSE IF prepared.exc # "none" THEN [exc |-> prepared.exc, val |-> PyNone, m |-> resolved.m]
       ELSE LET final_params == Len(resolved.m.objs) + 1
                made == New(resolved.m, prepared.val)
            IN [exc |-> "none", val |-> Ref(final_params),
                m |-> [made EXCEPT !.objs[final_params] =
                          WithSystemParameters(@, Deref(resolved.m.objs, resolved.val), now)]]

\* validate_template, lines 404-455: results is a new object that refers to
\* the resolved metadata
ValidateObjects(st, m, template_path) ==
    LET resolved == ResolveObjects(st, m, template_path, 1)
    IN [exc |-> "none", val |-> Ref(Len(resolved.m.objs) + 1),
        m |-> New(resolved.m, PyDict(<<<<"valid", PyBool(resolved.exc = "none")>>,
                                       <<"metadata", resolved.val>>>>))]

---------------------------------------------------------------------------
(* The template store: three template directories, each absent or holding   *)
(* one of a few declarations, with or without a parent reference            *)

TemplateIds == {"base", "mid", "app"}

TemplatePaths == TemplateIds \cup {"ghost"}

\* the ways a mapping holds key k: not at all, or with one of vals
Optional(k, vals) == {<<>>} \cup {<<<<k, x>>>> : x \in vals}

Header(name, category) ==
    <<<<"name", PyStr(name)>>, <<"version", PyStr("1.0.0")>>,
      <<"description", PyStr(name)>>, <<"category", PyStr(category)>>>>

LogLevelSpec ==
    PyDict(<<<<"type", PyStr("string")>>, <<"description", PyStr("Log level")>>,
             <<"default", PyStr("info")>>, <<"required", PyBool(FALSE)>>,
             <<"enum", StrList(<<"info", "debug">>)>>, <<"pattern", PyStr("^[a-z]+$")>>>>)

HyphenSpec ==
    PyDict(<<<<"type", PyStr("string")>>, <<"description", PyStr("Log level")>>,
             <<"default", PyStr("info")>>, <<"enum", StrList(<<"info", "debug">>)>>>>)

PortSpec ==
    PyDict(<<<<"type", PyStr("integer")>>, <<"description", PyStr("Port")>>,
             <<"default", PyInt(3000)>>, <<"min", PyInt(1)>>, <<"max", PyInt(65535)>>>>)

BaseBodies ==
    { Header("base", "base") \o
          <<<<"parameters", PyDict(<<<<"log_level", LogLevelSpec>>, <<"log-level", HyphenSpec>>,
                                     <<"port", PortSpec>>>>)>>,
            <<"tags", StrList(<<"x">>)>>>>,
      \* no category: the schema rejects it
      <<<<"name", PyStr("base")>>, <<"version", PyStr("1.0.0")>>, <<"description", PyStr("base")>>>> }

MidBodies ==
    { Header("mid", "infrastructure") \o <<<<"tags", StrList(<<"y">>)>>>>,
      \* redeclares log_level with the two fields the schema requires, and a default
      Header("mid", "infrastructure") \o
          <<<<"parameters", PyDict(<<<<"log_level",
                PyDict(<<<<"type", PyStr("string")>>, <<"description", PyStr("Verbosity")>>,
                         <<"default", PyStr("debug")>>>>)>>>>)>>>>,
      \* overrides only the default, of a parameter whose name the schema's pattern skips
      Header("mid", "infrastructure") \o
          <<<<"parameters", PyDict(<<<<"log-level",
                PyDict(<<<<"default", PyStr("debug")>>>>)>>>>)>>>>,
      \* overrides only the default of log_level: the schema rejects it
      Header("mid", "infrastructure") \o
          <<<<"parameters", PyDict(<<<<"log_level",
                PyDict(<<<<"default", PyStr("debug")>>>>)>>>>)>>>> }

AppBodies ==
    { Header("app", "app"),
      Header("app", "app") \o
          <<<<"parameters", PyDict(<<<<"port",
                PyDict(<<<<"type", PyStr("integer")>>, <<"description", PyStr("Port")>>,
                         <<"default", PyInt(80)>>>>)>>>>)>>,
            <<"tags", StrList(<<"y">>)>>>> }

\* the directories with one of the bodies and no parent or one of the parents
Dirs(bodies, parents) ==
    {TemplateDir(PyDict(b)) : b \in bodies}
    \cup {TemplateDir(PyDict(b \o <<<<"inherits", PyStr(parent)>>>>)) : b \in bodies, parent \in parents}

\* "ghost" is never a template directory
Stores ==
    { [path \in TemplatePaths |->
          CASE path = "base" -> b [] path = "mid" -> m [] path = "app" -> a
            [] OTHER -> NoTemplate] :
      b \in Dirs(BaseBodies, {"base", "app"}),
      m \in Dirs(MidBodies, {"base", "ghost"}),
      a \in Dirs(AppBodies, {"mid", "base"}) \ {TemplateDir(PyDict(body)) : body \in AppBodies} }

\* the stores with one of base_dirs as base, one of app_dirs as app, no mid
StoresOf(base_dirs, app_dirs) ==
    { [path \in TemplatePaths |->
          CASE path = "base" -> b [] path = "app" -> a [] OTHER -> NoTemplate] :
      b \in base_dirs, a \in app_dirs }

\* files sections: the known groups with a string, a list of strings or
\* something else, and a group the schema has no property for
FilesChoices ==
    {PyDict(<<<<"dockerfile", d>>>> \o g) :
        d \in {PyStr("Dockerfile"), StrList(<<"Dockerfile">>), PyInt(5)},
        g \in Optional("config", {PyStr("app.conf"), StrList(<<"app.conf">>), PyList(<<PyInt(5)>>)})
              \cup Optional("extras", {PyStr("notes.md"), StrList(<<"notes.md">>), PyInt(5),
                                      PyList(<<PyStr("notes.md"), PyInt(5)>>)})}

\* stores with base alone, declaring one of the files sections
FileGroupStores ==
    StoresOf({TemplateDir(PyDict(Header("base", "base") \o <<<<"files", f>>>>)) : f \in FilesChoices},
             {NoTemplate})

NoCall == [op |-> "none", done |-> TRUE]

Init ==
    /\ store \in Stores \cup FileGroupStores
    /\ cache = PyDict(<<>>)
    /\ heap = <<>>
    /\ disk = PyDict(<<>>)
    /\ call = NoCall

LoadTemplateMetadataCall ==
    \E template_path \in TemplateIds :
        LET r == load_template_metadata(store, template_path)
        IN /\ call' = [op |-> "load_template_metadata", done |-> TRUE,
                       path |-> template_path, result |-> r]
           /\ cache' = IF r.exc = "none" THEN SetItem(cache, template_path, r.val) ELSE cache
           /\ UNCHANGED <<store, disk, heap>>

ResolveInheritanceCall ==
    \E template_path \in TemplateIds :
        LET r == resolve_inheritance(store, template_path, 1)
        IN /\ call' = [op |-> "resolve_inheritance", done |-> TRUE,
                       path |-> template_path, result |-> [exc |-> r.exc, val |-> r.val]]
           /\ cache' = CacheAll(cache, store, r.loaded)
           /\ UNCHANGED <<store, disk, heap>>

Next == LoadTemplateMetadataCall \/ ResolveInheritanceCall

Spec == Init /\ [][Next]_vars

---------------------------------------------------------------------------
(* Inputs of the parameter specification *)

\* the integers 0..MaxInt are tried as values, with a few ports
MaxInt == 4

IntValues == 0..MaxInt \cup {80, 65535, 65536, 100000}

Values ==
    {PyStr("abc"), PyStr("ABC"), PyStr("abc1"), PyStr("abc\n"), PyStr("")}
    \cup {PyInt(n) : n \in IntValues}
    \cup {PyBool(TRUE), PyBool(FALSE), PyList(<<>>), PyList(<<PyInt(1)>>), PyDict(<<>>), PyNone}

ParamTypes == {"string", "integer", "boolean", "array", "object"}

EnumChoices ==
    Optional("enum", {StrList(<<"abc", "abc1">>), PyList(<<PyInt(1), PyInt(3)>>),
                      PyList(<<PyInt(1), PyStr("abc")>>)})

PatternChoices == Optional("pattern", {PyStr("^[a-z]+$"), PyStr("[a-z]+")})

MinChoices == Optional("min", {PyInt(1), PyInt(4)})

MaxChoices == Optional("max", {PyInt(2), PyInt(65535)})

\* parameter specs as the schema admits them
ParamDefs ==
    {PyDict(<<<<"type", PyStr(ty)>>, <<"description", PyStr("d")>>>> \o e \o pt \o mn \o mx) :
        ty \in ParamTypes, e \in EnumChoices, pt \in PatternChoices,
        mn \in MinChoices, mx \in MaxChoices}

LogLevelDefs ==
    {PyDict(<<<<"type", PyStr("string")>>, <<"description", PyStr("Log level")>>>> \o d \o r \o e) :
        d \in Optional("default", {PyStr("info"), PyStr("warn"), PyInt(5)}),
        r \in Optional("required", {PyBool(TRUE), PyBool(FALSE)}),
        e \in Optional("enum", {StrList(<<"info", "debug">>)})}

PortDefs ==
    {PyDict(<<<<"type", PyStr("integer")>>, <<"description", PyStr("Port")>>>> \o d \o r
            \o <<<<"min", PyInt(1)>>, <<"max", PyInt(65535)>>>>) :
        d \in Optional("default", {PyInt(3000), PyInt(100000)}),
        r \in Optional("required", {PyBool(TRUE), PyBool(FALSE)})}

\* a spec the schema lets through without a type, for its name is no identifier
UntypedSpec == PyDict(<<<<"default", PyStr("debug")>>>>)

\* resolved templates declaring some of log-level, log_level and port, in that order
ResolvedTemplates ==
    {PyDict(Header("app", "app"))}
    \cup {PyDict(Header("app", "app") \o <<<<"parameters", PyDict(u \o a \o b)>>>>) :
            u \in Optional("log-level", {UntypedSpec}),
            a \in Optional("log_level", LogLevelDefs), b \in Optional("port", PortDefs)}

ProvidedParams ==
    {PyDict(a \o b \o c) :
        a \in Optional("log_level", {PyStr("info"), PyStr("warn"), PyInt(5)}),
        b \in Optional("port", {PyInt(80), PyInt(100000), PyBool(TRUE)}),
        c \in Optional("extra", {PyStr("abc")})}

InitParams ==
    /\ store = <<>>
    /\ cache = PyDict(<<>>)
    /\ heap = <<>>
    /\ disk = PyDict(<<>>)
    /\ \/ \E value \in Values, definition \in ParamDefs :
             call = [op |-> "_validate_parameter", done |-> FALSE, name |-> "port",
                     value |-> value, definition |-> definition, result |-> PyNone]
       \/ \E metadata \in ResolvedTemplates, provided_params \in ProvidedParams :
             call = [op |-> "_prepare_parameters", done |-> FALSE, metadata |-> metadata,
                     provided_params |-> provided_params, result |-> PyNone]

ValidateParameterCall ==
    /\ call.op = "_validate_parameter" /\ ~call.done
    /\ call' = [call EXCEPT !.done = TRUE,
                            !.result = _validate_parameter(call.name, call.value, call.definition)]
    /\ UNCHANGED <<store, cache, disk, heap>>

PrepareParametersCall ==
    /\ call.op = "_prepare_parameters" /\ ~call.done
    /\ call' = [call EXCEPT !.done = TRUE,
                            !.result = _prepare_parameters(call.metadata, call.provided_params)]
    /\ UNCHANGED <<store, cache, disk, heap>>

NextParams == ValidateParameterCall \/ PrepareParametersCall

SpecParams == InitParams /\ [][NextParams]_vars

---------------------------------------------------------------------------
(* Inputs of the generation specification: a base template that declares   *)
(* log_level and port and two output files, and an app template on top     *)

RequiredLogLevel ==
    PyDict(<<<<"type", PyStr("string")>>, <<"description", PyStr("Log level")>>,
             <<"required", PyBool(TRUE)>>>>)

GenLogLevelDefs ==
    {RequiredLogLevel,
     PyDict(<<<<"type", PyStr("string")>>, <<"description", PyStr("Log level")>>,
              <<"default", PyStr("info")>>>>),
     PyDict(<<<<"type", PyStr("string")>>, <<"description", PyStr("Log level")>>>>)}

RequiredPort ==
    PyDict(<<<<"type", PyStr("integer")>>, <<"description", PyStr("Port")>>,
             <<"required", PyBool(TRUE)>>, <<"min", PyInt(1)>>, <<"max", PyInt(65535)>>>>)

GenPortDefs == {RequiredPort, PortSpec}

GenFiles ==
    PyDict(<<<<"dockerfile", PyStr("Dockerfile")>>, <<"config", StrList(<<"app.conf">>)>>>>)

Dockerfile == SourceFile({"port", "log_level", "template_name", "extra"})

AppConf == SourceFile({"log_level", "generated_at"})

BothSources(dockerfile, app_conf) ==
    [f \in {"Dockerfile", "app.conf"} |-> IF f = "Dockerfile" THEN dockerfile ELSE app_conf]

\* template.yaml of base with the parameters and file groups given, and its sources
GenBaseDir(parameters, files, sources) ==
    TemplateDirWith(PyDict(Header("base", "base") \o
                           <<<<"parameters", PyDict(parameters)>>, <<"files", files>>>>), sources)

GenBaseDirs ==
    {GenBaseDir(u \o <<<<"log_level", l>>, <<"port", p>>>>, GenFiles, src) :
        u \in Optional("log-level", {UntypedSpec}), l \in GenLogLevelDefs, p \in GenPortDefs,
        src \in {[f \in {"Dockerfile"} |-> Dockerfile],
                 BothSources(Dockerfile, AppConf),
                 BothSources(Dockerfile, BrokenSource)}}

\* a parameter named like a key the engine injects
ReservedNameSpec ==
    PyDict(<<<<"type", PyStr("string")>>, <<"description", PyStr("Name")>>,
             <<"default", PyStr("mine")>>>>)

DefaultedParameters == <<<<"log_level", LogLevelSpec>>, <<"port", PortSpec>>>>

\* a file group no schema property describes, with a value that is no list
OddFiles == PyDict(<<<<"dockerfile", PyStr("Dockerfile")>>, <<"extras", PyInt(5)>>>>)

\* a declared file in a subdirectory
NestedFiles ==
    PyDict(<<<<"dockerfile", PyStr("Dockerfile")>>, <<"config", StrList(<<"conf/app.conf">>)>>>>)

NestedSources ==
    [f \in {"Dockerfile", "conf/app.conf"} |-> IF f = "Dockerfile" THEN Dockerfile ELSE AppConf]

\* base declaring a reserved name, or with a source that fails to render, or
\* with the odd file group, or with a file in a subdirectory, or without
\* the source of the first declared file
GenExtraBaseDirs ==
    {GenBaseDir(<<<<"template_name", ReservedNameSpec>>, <<"port", PortSpec>>>>, GenFiles,
                BothSources(Dockerfile, AppConf)),
     GenBaseDir(DefaultedParameters, OddFiles, BothSources(Dockerfile, AppConf)),
     GenBaseDir(DefaultedParameters, NestedFiles, NestedSources),
     GenBaseDir(DefaultedParameters, GenFiles, [f \in {"app.conf"} |-> AppConf])}
    \cup {GenBaseDir(DefaultedParameters, GenFiles, src) :
            src \in {BothSources(BrokenSource, AppConf), BothSources(CrashingSource, AppConf),
                     BothSources(Dockerfile, BrokenSourceOf("base")),
                     BothSources(Dockerfile, CrashingSource)}}

GenAppDirs ==
    {TemplateDirWith(PyDict(b \o <<<<"inherits", PyStr("base")>>>>), src) :
        b \in AppBodies, src \in {<<>>, [f \in {"Dockerfile"} |-> Dockerfile]}}

GenStores == StoresOf(GenBaseDirs \cup GenExtraBaseDirs, GenAppDirs)

GenParameters ==
    {PyNone} \cup
    {PyDict(a \o b) : a \in Optional("log_level", {PyStr("info"), PyStr("warn"), PyInt(5)}),
                      b \in Optional("port", {PyInt(80), PyInt(100000)})}
    \cup {PyDict(<<<<"extra", PyStr("abc")>>>>),
          PyDict(<<<<"log_level", PyStr("info")>>, <<"extra", PyStr("abc")>>>>)}

\* what datetime.now().isoformat() may give
Clock == {"2024-01-01T00:00:00", "2024-01-02T00:00:00"}

OutputDir == "out"

\* the output directory does not exist, or holds a Dockerfile of an earlier run
OutputTrees ==
    {PyDict(<<>>),
     PyDict(<<<<OutputDir, Directory>>, <<PathJoin(OutputDir, "Dockerfile"), PyStr("old")>>>>)}

InitGenerate ==
    /\ store \in GenStores
    /\ cache = PyDict(<<>>)
    /\ heap = <<>>
    /\ disk \in OutputTrees
    /\ call = NoCall

\* the record of a generate_template call: its arguments, the output tree it
\* found, what it raised or returned, the sources it began to render, the
\* metadata it resolved, and the calls made before it
GenerateCallRecord(template_path, parameters, dry_run, now, r, earlier) ==
    [op |-> "generate_template", done |-> TRUE, path |-> template_path,
     parameters |-> parameters, dry_run |-> dry_run, now |-> now, disk_before |-> disk,
     cache_before |-> cache,
     result |-> [exc |-> r.exc, param |-> r.param, rule |-> r.rule, file |-> r.file,
                 names |-> r.names, val |-> r.val, rendered |-> r.rendered,
                 metadata |-> r.metadata],
     earlier |-> earlier]

\* one request for each run of the engine
GenerateTemplateCall ==
    /\ call = NoCall
    /\ \E template_path \in TemplateIds, parameters \in GenParameters,
          dry_run \in BOOLEAN, now \in Clock :
          LET r == generate_template(store, disk, template_path, OutputDir, parameters, dry_run, now)
          IN /\ call' = GenerateCallRecord(template_path, parameters, dry_run, now, r, <<>>)
             /\ disk' = r.disk
             /\ cache' = CacheAll(cache, store, r.loaded)
             /\ UNCHANGED <<store, heap>>

NextGenerate == GenerateTemplateCall

SpecGenerate == InitGenerate /\ [][NextGenerate]_vars

---------------------------------------------------------------------------
(* Two requests to one engine: the second finds the cache and the output    *)
(* tree the first left                                                      *)

RepeatStores ==
    StoresOf({GenBaseDir(DefaultedParameters, GenFiles, BothSources(Dockerfile, AppConf)),
              GenBaseDir(DefaultedParameters, GenFiles, BothSources(Dockerfile, BrokenSource)),
              GenBaseDir(<<<<"log_level", RequiredLogLevel>>, <<"port", PortSpec>>>>, GenFiles,
                         BothSources(Dockerfile, AppConf))},
             GenAppDirs)

RepeatParameters ==
    {PyNone, PyDict(<<<<"log_level", PyStr("info")>>>>),
     PyDict(<<<<"log_level", PyStr("info")>>, <<"port", PyInt(80)>>>>)}

InitRepeat ==
    /\ store \in RepeatStores
    /\ cache = PyDict(<<>>)
    /\ heap = <<>>
    /\ disk \in OutputTrees
    /\ call = NoCall

FirstGenerateCall ==
    /\ call = NoCall
    /\ \E template_path \in {"base", "app"}, parameters \in RepeatParameters,
          dry_run \in BOOLEAN, now \in Clock :
          LET r == generate_template(store, disk, template_path, OutputDir, parameters, dry_run, now)
          IN /\ call' = GenerateCallRecord(template_path, parameters, dry_run, now, r, <<>>)
             /\ disk' = r.disk
             /\ cache' = CacheAll(cache, store, r.loaded)
             /\ UNCHANGED <<store, heap>>

SecondGenerateCall ==
    /\ call.op = "generate_template" /\ call.earlier = <<>>
    /\ \E template_path \in {"base", "app"}, parameters \in RepeatParameters,
          dry_run \in BOOLEAN, now \in Clock :
          LET r == generate_template(store, disk, template_path, OutputDir, parameters, dry_run, now)
          IN /\ call' = GenerateCallRecord(template_path, parameters, dry_run, now, r, <<call>>)
             /\ disk' = r.disk
             /\ cache' = CacheAll(cache, store, r.loaded)
             /\ UNCHANGED <<store, heap>>

NextRepeat == FirstGenerateCall \/ SecondGenerateCall

SpecRepeat == InitRepeat /\ [][NextRepeat]_vars

---------------------------------------------------------------------------
(* Inputs of the validation specification: a base template that declares    *)
(* three files, each missing, rendering, or failing to render               *)

ThreeFiles ==
    PyDict(<<<<"dockerfile", PyStr("Dockerfile")>>, <<"config", StrList(<<"a.conf", "b.conf">>)>>>>)

SourceChoices == {SourceFile({"port"}), BrokenSource, CrashingSource}

\* every way to have some of the three files, each with one of the sources
SourceTrees ==
    UNION {[present -> SourceChoices] : present \in SUBSET {"Dockerfile", "a.conf", "b.conf"}}

\* a declaration the schema rejects: no category
InvalidBase ==
    TemplateDir(PyDict(<<<<"name", PyStr("base")>>, <<"version", PyStr("1.0.0")>>,
                         <<"description", PyStr("base")>>>>))

\* app on top of a template, without sources of its own but a.conf
AppOn(parent) ==
    TemplateDirWith(PyDict(Header("app", "app") \o <<<<"inherits", PyStr(parent)>>>>),
                    [f \in {"a.conf"} |-> BrokenSource])

ValidateStores ==
    StoresOf({GenBaseDir(DefaultedParameters, ThreeFiles, src) : src \in SourceTrees}
                 \cup {GenBaseDir(DefaultedParameters, OddFiles, BothSources(Dockerfile, AppConf))},
             {NoTemplate, AppOn("base")})
    \cup StoresOf({InvalidBase, NoTemplate}, {AppOn("base"), AppOn("app")})

InitValidate ==
    /\ store \in ValidateStores
    /\ cache = PyDict(<<>>)
    /\ heap = <<>>
    /\ disk = PyDict(<<>>)
    /\ call = NoCall

ValidateTemplateCall ==
    \E template_path \in TemplateIds :
        LET r == validate_template(store, template_path)
        IN /\ call' = [op |-> "validate_template", done |-> TRUE, path |-> template_path,
                       result |-> [valid |-> r.valid, errors |-> r.errors,
                                   warnings |-> r.warnings, metadata |-> r.metadata,
                                   rendered |-> r.rendered, raised |-> r.raised]]
           /\ cache' = CacheAll(cache, store, r.loaded)
           /\ UNCHANGED <<store, disk, heap>>

NextValidate == ValidateTemplateCall

SpecValidate == InitValidate /\ [][NextValidate]_vars

---------------------------------------------------------------------------
(* Inputs of the command specification: one template, a parameter file or   *)
(* none, and up to MaxOverrides --param arguments                           *)

MaxOverrides == 2

ParamArguments == {"port=80", "log_level=info", "log_level=debug", "extra=a=b", "port"}

\* args.param: None without --param, else the arguments in command-line order
ParamLists == UNION {[1..n -> ParamArguments] : n \in 0..MaxOverrides}

\* what json.load reads from the file of --params; PyNone without --params
ParamsFiles ==
    {PyNone,
     PyDict(<<<<"port", PyInt(80)>>>>),
     PyDict(<<<<"log_level", PyStr("debug")>>, <<"port", PyInt(3000)>>>>),
     PyDict(<<<<"extra", PyStr("abc")>>>>),
     PyList(<<PyInt(80)>>)}

CommandStores ==
    StoresOf({GenBaseDir(DefaultedParameters, GenFiles, BothSources(Dockerfile, AppConf))},
             {NoTemplate})

CommandArgs ==
    [template : {"base"}, output : {OutputDir}, params : ParamsFiles, param : ParamLists,
     dry_run : BOOLEAN, force : BOOLEAN]

InitCommand ==
    /\ store \in CommandStores
    /\ cache = PyDict(<<>>)
    /\ heap = <<>>
    /\ disk \in OutputTrees
    /\ \E args \in CommandArgs :
          \/ call = [op |-> "cmd_generate", done |-> FALSE, args |-> args, result |-> PyNone]
          \/ /\ ~args.force
             /\ call = [op |-> "main", done |-> FALSE, args |-> args, result |-> PyNone]

MainGenerateCall ==
    /\ call.op = "main" /\ ~call.done
    /\ \E now \in Clock :
          LET r == MainGenerate(store, disk, call.args, now)
          IN /\ call' = [call EXCEPT !.done = TRUE, !.result = r]
             /\ disk' = r.disk
             /\ cache' = CacheAll(cache, store, r.loaded)
             /\ UNCHANGED <<store, heap>>

CmdGenerateCall ==
    /\ call.op = "cmd_generate" /\ ~call.done
    /\ \E now \in Clock, response \in {"y", "n"} :
          LET r == cmd_generate(store, disk, call.args, response, now)
          IN /\ call' = [call EXCEPT !.done = TRUE, !.result = r]
             /\ disk' = r.disk
             /\ cache' = CacheAll(cache, store, r.loaded)
             /\ UNCHANGED <<store, heap>>

NextCommand == MainGenerateCall \/ CmdGenerateCall

SpecCommand == InitCommand /\ [][NextCommand]_vars

---------------------------------------------------------------------------
(* Inputs of the object specification: a base that declares parameters, a   *)
(* mid and an app on top, and up to MaxCalls calls on one engine            *)

MaxCalls == 2

\* the stores with a base that loads and has no parent, and an app that
\* declares parameters
ObjectStores ==
    {st \in Stores : /\ HasKey(st["base"].yaml, "category")
                     /\ ~HasKey(st["base"].yaml, "inherits")
                     /\ HasKey(st["app"].yaml, "parameters")}

InitObjects ==
    /\ store \in ObjectStores
    /\ cache = PyDict(<<>>)
    /\ heap = [objs |-> <<>>, frozen |-> <<>>]
    /\ disk = PyDict(<<>>)
    /\ call = [op |-> "none", done |-> TRUE, n |-> 0]

\* the record of the n-th call and its outcome
ObjectCall(op, template_path, r) ==
    [op |-> op, done |-> TRUE, n |-> call.n + 1, path |-> template_path,
     result |-> [exc |-> r.exc, val |-> r.val]]

\* the memory after a call
Remember(r) ==
    /\ heap' = [objs |-> r.m.objs, frozen |-> r.m.frozen]
    /\ cache' = r.m.cache
    /\ UNCHANGED <<store, disk>>

LoadObjectCall ==
    /\ call.n < MaxCalls
    /\ \E template_path \in TemplateIds :
          LET r == LoadObject(store, Memory(heap.objs, heap.frozen, cache), template_path)
          IN call' = ObjectCall("load_template_metadata", template_path, r) /\ Remember(r)

ResolveObjectsCall ==
    /\ call.n < MaxCalls
    /\ \E template_path \in TemplateIds :
          LET r == ResolveObjects(store, Memory(heap.objs, heap.frozen, cache), template_path, 1)
          IN call' = ObjectCall("resolve_inheritance", template_path, r) /\ Remember(r)

GenerateObjectsCall ==
    /\ call.n < MaxCalls
    /\ \E template_path \in TemplateIds, now \in Clock :
          LET r == GenerateObjects(store, Memory(heap.objs, heap.frozen, cache), template_path,
                                   PyNone, now)
          IN call' = ObjectCall("generate_template", template_path, r) /\ Remember(r)

ValidateObjectsCall ==
    /\ call.n < MaxCalls
    /\ \E template_path \in TemplateIds :
          LET r == ValidateObjects(store, Memory(heap.objs, heap.frozen, cache), template_path)
          IN call' = ObjectCall("validate_template", template_path, r) /\ Remember(r)

NextObjects ==
    LoadObjectCall \/ ResolveObjectsCall \/ GenerateObjectsCall \/ ValidateObjectsCall

SpecObjects == InitObjects /\ [][NextObjects]_vars

---------------------------------------------------------------------------
(* Concurrent callers of load_template_metadata on one engine: each thread  *)
(* runs the statements of the method one at a time, up to MaxLoads calls     *)

MaxLoads == 1

Threads == {"t1", "t2"}

\* base loads or lacks its category; mid is there or not
ConcurrentStores ==
    { [path \in TemplatePaths |->
          CASE path = "base" -> b [] path = "mid" -> m [] OTHER -> NoTemplate] :
      b \in {TemplateDir(PyDict(body)) : body \in BaseBodies},
      m \in {NoTemplate, TemplateDir(PyDict(Header("mid", "infrastructure")))} }

Idle(n) == [pc |-> "idle", n |-> n, path |-> "none", metadata |-> PyNone, result |-> PyNone]

InitConcurrent ==
    /\ store \in ConcurrentStores
    /\ cache = PyDict(<<>>)
    /\ heap = [objs |-> <<>>, frozen |-> <<>>]
    /\ disk = PyDict(<<>>)
    /\ call = [t \in Threads |-> Idle(0)]

\* the call: template_dir and metadata_file are computed (lines 169-170)
BeginLoad(t) ==
    /\ call[t].pc = "idle" /\ call[t].n < MaxLoads
    /\ \E template_path \in {"base", "mid"} :
          call' = [call EXCEPT ![t] = [pc |-> "exists", n |-> call[t].n + 1, path |-> template_path,
                                       metadata |-> PyNone, result |-> PyNone]]
    /\ UNCHANGED <<store, cache, disk, heap>>

\* lines 172-173
CheckExists(t) ==
    /\ call[t].pc = "exists"
    /\ call' = [call EXCEPT ![t] =
                   IF store[call[t].path].t = "absent"
                   THEN [@ EXCEPT !.pc = "idle", !.result = Raise("FileNotFoundError")]
                   ELSE [@ EXCEPT !.pc = "read"]]
    /\ UNCHANGED <<store, cache, disk, heap>>

\* lines 175-176: metadata = yaml.safe_load(f)
ReadMetadata(t) ==
    /\ call[t].pc = "read"
    /\ LET parsed == Parse(Memory(heap.objs, heap.frozen, cache), store[call[t].path].yaml)
       IN /\ heap' = [objs |-> parsed.m.objs, frozen |-> parsed.m.frozen]
          /\ call' = [call EXCEPT ![t] = [@ EXCEPT !.pc = "validate", !.metadata = parsed.val]]
    /\ UNCHANGED <<store, cache, disk>>

\* lines 179-184
ValidateMetadata(t) ==
    /\ call[t].pc = "validate"
    /\ call' = [call EXCEPT ![t] =
                   IF IsValid(Deref(heap.objs, call[t].metadata), _get_template_schema)
                   THEN [@ EXCEPT !.pc = "cache"]
                   ELSE [@ EXCEPT !.pc = "idle", !.result = Raise("ValidationError")]]
    /\ UNCHANGED <<store, cache, disk, heap>>

\* lines 187-188: the assignment to the cache, one bytecode under the
\* interpreter lock, and the return
CacheMetadata(t) ==
    /\ call[t].pc = "cache"
    /\ cache' = SetItem(cache, call[t].path, call[t].metadata)
    /\ call' = [call EXCEPT ![t] = [@ EXCEPT !.pc = "idle", !.result = Ok(call[t].metadata)]]
    /\ UNCHANGED <<store, disk, heap>>

NextConcurrent ==
    \E t \in Threads :
        BeginLoad(t) \/ CheckExists(t) \/ ReadMetadata(t) \/ ValidateMetadata(t) \/ CacheMetadata(t)

SpecConcurrent == InitConcurrent /\ [][NextConcurrent]_vars

---------------------------------------------------------------------------
(* Inputs of the inheritance-of-files specification: base declares the file *)
(* groups, app inherits them; each directory has some of the sources        *)

\* a Dockerfile of app's own, which reads the port only
OwnDockerfile == SourceFile({"port"})

InheritStores ==
    StoresOf({GenBaseDir(DefaultedParameters, GenFiles, src) :
                 src \in {BothSources(Dockerfile, AppConf), [f \in {"Dockerfile"} |-> Dockerfile]}},
             {TemplateDirWith(PyDict(b \o <<<<"inherits", PyStr("base")>>>>), src) :
                 b \in AppBodies,
                 src \in {<<>>, [f \in {"Dockerfile"} |-> OwnDockerfile],
                          [f \in {"app.conf"} |-> BrokenSource],
                          BothSources(OwnDockerfile, AppConf)}})

InitInherit ==
    /\ store \in InheritStores
    /\ cache = PyDict(<<>>)
    /\ heap = <<>>
    /\ disk = PyDict(<<>>)
    /\ call = NoCall

NextInherit == GenerateTemplateCall \/ ValidateTemplateCall

SpecInherit == InitInherit /\ [][NextInherit]_vars

---------------------------------------------------------------------------
(* Claims about resolve_inheritance, under Spec *)

ResolveReturned == call.op = "resolve_inheritance" /\ call.result.exc = "none"

\* whether the parent references, followed from template_path through
\* declarations that load, come back to a template already passed
RECURSIVE Cyclic(_, _, _)
Cyclic(st, template_path, seen) ==
    IF template_path \in seen THEN TRUE
    ELSE IF load_template_metadata(st, template_path).exc # "none" THEN FALSE
    ELSE IF ~HasKey(st[template_path].yaml, "inherits") THEN FALSE
    ELSE Cyclic(st, Get(st[template_path].yaml, "inherits").v, seen \cup {template_path})

(* C1: for every template whose parent-reference chain contains a cycle    *)
(* (a template naming itself as parent included), resolve_inheritance      *)
(* raises an explicit inheritance-cycle error.                             *)
CyclicChainRaisesCycleError ==
    (call.op = "resolve_inheritance" /\ Cyclic(store, call.path, {}))
        => call.result.exc = "InheritanceCycleError"

\* the declarations as written in the store, from template_path up its
\* parent references: <<child, parent, ..., root>>
RECURSIVE ChainFrom(_, _, _)
ChainFrom(st, template_path, seen) ==
    IF template_path \in seen \/ st[template_path].t = "absent" THEN <<>>
    ELSE <<st[template_path].yaml>> \o
         (IF HasKey(st[template_path].yaml, "inherits")
          THEN ChainFrom(st, Get(st[template_path].yaml, "inherits").v, seen \cup {template_path})
          ELSE <<>>)

ParametersOf(decl) ==
    IF HasKey(decl, "parameters") /\ IsDict(Get(decl, "parameters"))
    THEN Get(decl, "parameters") ELSE PyDict(<<>>)

\* decl declares field f of parameter p anew (a spec that is no mapping
\* replaces every field)
Redeclares(decl, p, f) ==
    /\ HasKey(decl, "parameters")
    /\ IsDict(Get(decl, "parameters")) => HasKey(Get(decl, "parameters"), p)
    /\ (IsDict(Get(decl, "parameters")) /\ IsDict(Get(Get(decl, "parameters"), p)))
          => HasKey(Get(Get(decl, "parameters"), p), f)

ResolvedHasNoParentReference ==
    (ResolveReturned /\ HasKey(store[call.path].yaml, "inherits"))
        => ~HasKey(call.result.val, "inherits")

\* a chain of three resolved: two parent references were merged in
ResolvedHasNoParentReferenceWitness ==
    /\ ResolveReturned /\ call.path = "app"
    /\ GetOr(store["app"].yaml, "inherits", PyNone) = PyStr("mid")
    /\ GetOr(store["mid"].yaml, "inherits", PyNone) = PyStr("base")
    /\ Get(call.result.val, "name") = PyStr("app")
    /\ HasKey(call.result.val, "tags")

---------------------------------------------------------------------------
(* Claims about _prepare_parameters and _validate_parameter, under          *)
(* SpecParams                                                               *)

Prepared == call.op = "_prepare_parameters" /\ call.done

Validated == call.op = "_validate_parameter" /\ call.done

IsRequired(spec) == HasKey(spec, "required") /\ Get(spec, "required") = PyBool(TRUE)

(* C5: when _prepare_parameters returns, each declared parameter is bound   *)
(* to the provided value if one is provided, else to the declared default   *)
(* if one is declared, else it is not required and is left out; nothing     *)
(* undeclared is bound; and a "required" error is only ever raised for a    *)
(* required parameter with neither a provided value nor a default.          *)
PrepareBindsProvidedElseDefault ==
    Prepared =>
        LET declared == ParametersOf(call.metadata)
            provided == call.provided_params
            final == call.result.val
        IN /\ call.result.exc = "none" =>
                /\ Keys(final) \subseteq Keys(declared)
                /\ \A p \in Keys(declared) :
                      IF HasKey(provided, p)
                      THEN HasKey(final, p) /\ Get(final, p) = Get(provided, p)
                      ELSE IF HasKey(Get(declared, p), "default")
                      THEN HasKey(final, p) /\ Get(final, p) = Get(Get(declared, p), "default")
                      ELSE ~HasKey(final, p) /\ ~IsRequired(Get(declared, p))
           /\ call.result.rule = "required" =>
                /\ HasKey(declared, call.result.param)
                /\ ~HasKey(provided, call.result.param)
                /\ ~HasKey(Get(declared, call.result.param), "default")
                /\ IsRequired(Get(declared, call.result.param))

\* port has a default and a provided value: the provided 80 is bound;
\* log_level has neither and is not required: it is left out; the undeclared
\* "extra" is not bound
PrepareBindsProvidedElseDefaultWitness ==
    /\ Prepared /\ call.result.exc = "none"
    /\ Keys(ParametersOf(call.metadata)) = {"log_level", "port"}
    /\ ~HasKey(Get(ParametersOf(call.metadata), "log_level"), "default")
    /\ GetOr(Get(ParametersOf(call.metadata), "port"), "default", PyNone) = PyInt(3000)
    /\ call.provided_params = PyDict(<<<<"port", PyInt(80)>>, <<"extra", PyStr("abc")>>>>)
    /\ call.result.val = PyDict(<<<<"port", PyInt(80)>>>>)

\* the type name of a value's own type
ExactType(value) ==
    CASE value.t = "str" -> "string"
      [] value.t = "int" -> "integer"
      [] value.t = "bool" -> "boolean"
      [] value.t = "list" -> "array"
      [] value.t = "dict" -> "object"
      [] OTHER -> "null"

(* C7: every value _validate_parameter accepts, and every value             *)
(* _prepare_parameters binds, has exactly the type its spec declares.       *)
BoundValueHasDeclaredType ==
    /\ (Validated /\ call.result.exc = "none")
          => ExactType(call.value) = Get(call.definition, "type").v
    /\ (Prepared /\ call.result.exc = "none")
          => \A p \in Keys(call.result.val) :
                HasKey(Get(ParametersOf(call.metadata), p), "type")
                    => ExactType(Get(call.result.val, p))
                           = Get(Get(ParametersOf(call.metadata), p), "type").v

\* the spec declares an enum
DeclaresEnum == HasKey(call.definition, "enum")

(* C8, as stated: with an enum declared, a value is accepted if and only    *)
(* if it is a member of the enum, and any other value raises a ValueError   *)
(* naming the parameter.                                                    *)
EnumAcceptedIffMember ==
    (Validated /\ DeclaresEnum) =>
        /\ call.result.exc = "none" <=> PyIn(call.value, Get(call.definition, "enum"))
        /\ ~PyIn(call.value, Get(call.definition, "enum"))
              => call.result.exc = "ValueError" /\ call.result.param = call.name

\* the value passes the type, pattern and range checks of its spec
PassesOtherChecks ==
    LET ty == Get(call.definition, "type").v
    IN /\ ExactType(call.value) = ty \/ (ty = "integer" /\ call.value.t = "bool")
       /\ (ty = "string" /\ HasKey(call.definition, "pattern"))
              => re_match(Get(call.definition, "pattern").v, call.value.v)
       /\ (ty = "integer" /\ HasKey(call.definition, "min"))
              => Get(call.definition, "min").v <= AsNum(call.value)
       /\ (ty = "integer" /\ HasKey(call.definition, "max"))
              => AsNum(call.value) <= Get(call.definition, "max").v

(* C8, amended: with an enum declared, a value is accepted only if it       *)
(* equals a member of the enum; a member is accepted exactly when it also   *)
(* passes the type, pattern and range checks; a value that equals no member *)
(* raises a ValueError naming the parameter; and every value                *)
(* _prepare_parameters binds, provided or default, equals a member.         *)
EnumAcceptsOnlyMembers ==
    /\ (Validated /\ DeclaresEnum) =>
          /\ call.result.exc = "none" => PyIn(call.value, Get(call.definition, "enum"))
          /\ PyIn(call.value, Get(call.definition, "enum"))
                => (call.result.exc = "none" <=> PassesOtherChecks)
          /\ ~PyIn(call.value, Get(call.definition, "enum"))
                => /\ call.result.exc = "ValueError"
                   /\ call.result.param = call.name
                   /\ call.result.rule \in {"type", "enum"}
    /\ (Prepared /\ call.result.exc = "none") =>
          \A p \in Keys(call.result.val) :
              HasKey(Get(ParametersOf(call.metadata), p), "enum")
                  => PyIn(Get(call.result.val, p), Get(Get(ParametersOf(call.metadata), p), "enum"))

\* "ABC" for a string parameter with enum ["abc", "abc1"]: the enum check rejects it
EnumAcceptsOnlyMembersWitness ==
    /\ Validated
    /\ call.definition = PyDict(<<<<"type", PyStr("string")>>, <<"description", PyStr("d")>>,
                                  <<"enum", StrList(<<"abc", "abc1">>)>>>>)
    /\ call.value = PyStr("ABC")
    /\ call.result = ValueError("port", "enum")

(* C9: a string value accepted under a declared pattern matches the pattern *)
(* as a whole; a value of which only a prefix matches is rejected.          *)
PatternMatchesWholeValue ==
    (/\ Validated
     /\ Get(call.definition, "type") = PyStr("string")
     /\ HasKey(call.definition, "pattern")
     /\ call.value.t = "str"
     /\ call.result.exc = "none")
        => re_fullmatch(Get(call.definition, "pattern").v, call.value.v)

\* an integer parameter with a bound declared
DeclaresRange ==
    /\ Get(call.definition, "type") = PyStr("integer")
    /\ HasKey(call.definition, "min") \/ HasKey(call.definition, "max")

BelowDeclaredMin ==
    HasKey(call.definition, "min") /\ AsNum(call.value) < Get(call.definition, "min").v

AboveDeclaredMax ==
    HasKey(call.definition, "max") /\ AsNum(call.value) > Get(call.definition, "max").v

(* C10, as stated: for an integer parameter with min and/or max declared,   *)
(* an integer value is accepted if and only if it is within each declared   *)
(* bound; above max it fails citing max, below min it fails citing min.     *)
RangeAcceptedIffWithinBounds ==
    (Validated /\ DeclaresRange /\ call.value.t = "int") =>
        /\ call.result.exc = "none" <=> (~BelowDeclaredMin /\ ~AboveDeclaredMax)
        /\ AboveDeclaredMax => call.result = ValueError(call.name, "max")
        /\ BelowDeclaredMin => call.result = ValueError(call.name, "min")

(* C10, amended: for an integer parameter with min and/or max declared, a   *)
(* value that passes the type check and the enum check is accepted if and   *)
(* only if it is within each declared bound; below min it fails citing min; *)
(* above max and not below min it fails citing max.                         *)
RangeDecidesAfterTypeAndEnum ==
    (/\ Validated /\ DeclaresRange
     /\ IsInstanceInt(call.value)
     /\ DeclaresEnum => PyIn(call.value, Get(call.definition, "enum"))) =>
        /\ call.result.exc = "none" <=> (~BelowDeclaredMin /\ ~AboveDeclaredMax)
        /\ BelowDeclaredMin => call.result = ValueError(call.name, "min")
        /\ (AboveDeclaredMax /\ ~BelowDeclaredMin) => call.result = ValueError(call.name, "max")

\* port=100000 with min 1 and max 65535: the error cites the max bound
RangeDecidesAfterTypeAndEnumWitness ==
    /\ Validated
    /\ call.definition = PyDict(<<<<"type", PyStr("integer")>>, <<"description", PyStr("d")>>,
                                  <<"min", PyInt(1)>>, <<"max", PyInt(65535)>>>>)
    /\ call.value = PyInt(100000)
    /\ call.result = ValueError("port", "max")

---------------------------------------------------------------------------
(* Claims about generate_template, under SpecGenerate *)

Generated == call.op = "generate_template"

\* the call resolved the inheritance of its template
Resolved == call.result.metadata # PyNone

\* the file patterns the resolved template of the call declares, in order
DeclaredPatterns == AllPatterns(GetOr(call.result.metadata, "files", PyDict(<<>>)), 1)

\* the parameters the resolved template of the request declares
RequestedParameters == ParametersOf(call.result.metadata)

\* the i-th declared parameter is required, has no default and is not supplied
MissingRequired(declared, provided, i) ==
    /\ ~HasKey(provided, declared.v[i][1])
    /\ ~HasKey(declared.v[i][2], "default")
    /\ IsRequired(declared.v[i][2])

\* the i-th declared parameter has a value, provided or default, and
\* _validate_parameter raises on it
InvalidValue(declared, provided, i) ==
    /\ HasKey(provided, declared.v[i][1]) \/ HasKey(declared.v[i][2], "default")
    /\ _validate_parameter(declared.v[i][1],
                           IF HasKey(provided, declared.v[i][1])
                           THEN Get(provided, declared.v[i][1])
                           ELSE Get(declared.v[i][2], "default"),
                           declared.v[i][2]).exc # "none"

(* C6, as stated: every required parameter without a default that the       *)
(* request does not supply is named by the ValueError the request fails     *)
(* with, and no file is generated.                                          *)
EveryMissingRequiredIsNamed ==
    (Generated /\ Resolved) =>
        \A i \in 1..Len(RequestedParameters.v) :
            MissingRequired(RequestedParameters, OrEmpty(call.parameters), i) =>
                /\ call.result.exc = "ValueError"
                /\ call.result.param = RequestedParameters.v[i][1]
                /\ disk = call.disk_before

(* C6, amended: a request that does not supply a required parameter without *)
(* a default fails and leaves the output files as they were; the error is   *)
(* the ValueError naming that parameter when no parameter declared before   *)
(* it is missing or invalid.                                                *)
MissingRequiredFails ==
    (Generated /\ Resolved) =>
        \A i \in 1..Len(RequestedParameters.v) :
            MissingRequired(RequestedParameters, OrEmpty(call.parameters), i) =>
                /\ call.result.exc # "none"
                /\ call.result.val = PyNone
                /\ disk = call.disk_before
                /\ (\A j \in 1..(i - 1) :
                        /\ ~MissingRequired(RequestedParameters, OrEmpty(call.parameters), j)
                        /\ ~InvalidValue(RequestedParameters, OrEmpty(call.parameters), j))
                      => /\ call.result.exc = "ValueError"
                         /\ call.result.param = RequestedParameters.v[i][1]
                         /\ call.result.rule = "required"

\* base has both source files, a default for log_level and a required port;
\* a request to write it without a port fails naming port, and the Dockerfile
\* of the earlier run stays
MissingRequiredFailsWitness ==
    /\ Generated /\ call.path = "base" /\ ~call.dry_run
    /\ DOMAIN store["base"].sources = {"Dockerfile", "app.conf"}
    /\ Get(RequestedParameters, "port") = RequiredPort
    /\ call.parameters = PyDict(<<<<"log_level", PyStr("info")>>>>)
    /\ call.result.exc = "ValueError"
    /\ call.result.param = "port"
    /\ call.result.rule = "required"
    /\ disk = PyDict(<<<<OutputDir, Directory>>, <<PathJoin(OutputDir, "Dockerfile"), PyStr("old")>>>>)

\* the keys generate_template injects into the final parameters
ReservedKeys == {"template_name", "template_version", "generated_at", "generated_by"}

(* C11: a generate_template call on a template that declares a parameter    *)
(* named like an injected key is rejected with a validation error.          *)
ReservedNameIsRejected ==
    (/\ Generated
     /\ Resolved
     /\ Keys(RequestedParameters) \cap ReservedKeys # {})
        => call.result.exc \in {"ValidationError", "ValueError"}

(* C12: a generate_template call with dry_run set leaves the output tree   *)
(* as it found it, files and directories, whether it returns or raises.     *)
DryRunLeavesStorageUnchanged ==
    (Generated /\ call.dry_run) => disk = call.disk_before

\* a dry run of base that returns both rendered files while the output
\* directory still does not exist
DryRunLeavesStorageUnchangedWitness ==
    /\ Generated /\ call.dry_run /\ call.path = "base"
    /\ call.result.exc = "none"
    /\ Keys(call.result.val) = {PathJoin(OutputDir, "Dockerfile"), PathJoin(OutputDir, "app.conf")}
    /\ call.disk_before = PyDict(<<>>)
    /\ disk = PyDict(<<>>)

(* C18: a generate_template call without dry_run that fails on a parameter *)
(* or on the rendering of a file has written no file.                       *)
FailedCallWritesNothing ==
    (Generated /\ ~call.dry_run /\ call.result.exc \in {"ValueError", "TemplateError"})
        => disk = call.disk_before

\* the request resolves, and the declared parameter i is missing or invalid
ParameterFails(i) ==
    \/ MissingRequired(RequestedParameters, OrEmpty(call.parameters), i)
    \/ InvalidValue(RequestedParameters, OrEmpty(call.parameters), i)

(* C19: a generate_template call that fails in inheritance resolution, or   *)
(* on a missing required parameter, or on a type, enum, pattern or range    *)
(* violation, has begun no rendering and left the output tree as it found   *)
(* it; and a call that has begun a rendering had every declared parameter   *)
(* present or dispensable, and valid.                                       *)
ParametersCheckedBeforeRendering ==
    Generated =>
        /\ (\/ call.result.exc \in {"FileNotFoundError", "ValidationError", "RecursionError"}
            \/ call.result.rule \in {"required", "type", "enum", "pattern", "min", "max"})
              => /\ call.result.rendered = <<>>
                 /\ call.result.val = PyNone
                 /\ disk = call.disk_before
        /\ call.result.rendered # <<>>
              => /\ Resolved
                 /\ \A i \in 1..Len(RequestedParameters.v) : ~ParameterFails(i)
        /\ (/\ Resolved
            /\ \E i \in 1..Len(RequestedParameters.v) : ParameterFails(i))
              => call.result.exc # "none" /\ call.result.rendered = <<>>

\* base has both sources and the output directory holds an earlier
\* Dockerfile; port=100000 fails the max bound: nothing is rendered and the
\* earlier Dockerfile stays
ParametersCheckedBeforeRenderingWitness ==
    /\ Generated /\ call.path = "base" /\ ~call.dry_run
    /\ store["base"].sources = BothSources(Dockerfile, AppConf)
    /\ call.parameters = PyDict(<<<<"log_level", PyStr("info")>>, <<"port", PyInt(100000)>>>>)
    /\ call.result.exc = "ValueError" /\ call.result.param = "port" /\ call.result.rule = "max"
    /\ call.result.rendered = <<>>
    /\ call.disk_before # PyDict(<<>>)
    /\ disk = call.disk_before

\* the declared file patterns of the request that are source files of the
\* template directory, in order
PresentPatterns ==
    LET IsThere(pattern) == pattern.t = "str" /\ pattern.v \in DOMAIN store[call.path].sources
    IN SelectSeq(DeclaredPatterns, IsThere)

\* the request returned, and was to write
Written == Generated /\ ~call.dry_run /\ call.result.exc = "none"

(* C21: when a generate_template call without dry_run returns, every entry  *)
(* of the returned mapping is a file of the output tree at the entry's path *)
(* with the returned content, whatever was there before, under directories  *)
(* from the output root down; every declared file that was rendered is an   *)
(* entry; and the output tree differs from the one the call found only at   *)
(* the entries and their directories.                                       *)
ReturnedEntriesAreWritten ==
    Written =>
        /\ Keys(call.result.val)
               = {PathJoin(OutputDir, call.result.rendered[i]) : i \in 1..Len(call.result.rendered)}
        /\ \A i \in 1..Len(call.result.rendered) :
              /\ GetOr(disk, PathJoin(OutputDir, call.result.rendered[i]), PyNone)
                     = Get(call.result.val, PathJoin(OutputDir, call.result.rendered[i]))
              /\ \A j \in 1..Len(ParentDirs(OutputDir, Parts(call.result.rendered[i]))) :
                    GetOr(disk, ParentDirs(OutputDir, Parts(call.result.rendered[i]))[j], PyNone)
                        = Directory
        /\ \A f \in Keys(disk) \cup Keys(call.disk_before) :
              GetOr(disk, f, PyNone) # GetOr(call.disk_before, f, PyNone)
                  => \/ f \in Keys(call.result.val)
                     \/ \E i \in 1..Len(call.result.rendered) :
                           \E j \in 1..Len(ParentDirs(OutputDir, Parts(call.result.rendered[i]))) :
                              f = ParentDirs(OutputDir, Parts(call.result.rendered[i]))[j]

\* base declares Dockerfile and conf/app.conf; the output directory holds a
\* Dockerfile of an earlier run and no conf directory: the call overwrites
\* the one and creates the other
ReturnedEntriesAreWrittenWitness ==
    /\ Written /\ call.path = "base"
    /\ call.result.rendered = <<"Dockerfile", "conf/app.conf">>
    /\ GetOr(call.disk_before, PathJoin(OutputDir, "Dockerfile"), PyNone) = PyStr("old")
    /\ ~HasKey(call.disk_before, PathJoin(OutputDir, "conf"))
    /\ Get(disk, PathJoin(OutputDir, "conf")) = Directory
    /\ Get(disk, PathJoin(OutputDir, "Dockerfile"))
           = Get(call.result.val, PathJoin(OutputDir, "Dockerfile"))
    /\ Get(disk, PathJoin(OutputDir, "Dockerfile")) # PyStr("old")
    /\ Get(disk, "out/conf/app.conf") = Get(call.result.val, "out/conf/app.conf")

MissingSourceIsSkipped ==
    (/\ Generated
     /\ Resolved
     /\ \A i \in 1..Len(RequestedParameters.v) : ~ParameterFails(i)
     /\ \A i \in 1..Len(DeclaredPatterns) : DeclaredPatterns[i].t = "str") =>
        /\ \A i \in 1..Len(DeclaredPatterns) :
              DeclaredPatterns[i].v \notin DOMAIN store[call.path].sources
                  => /\ call.result.val # PyNone
                        => ~HasKey(call.result.val, PathJoin(OutputDir, DeclaredPatterns[i].v))
                     /\ GetOr(disk, PathJoin(OutputDir, DeclaredPatterns[i].v), PyNone)
                            = GetOr(call.disk_before, PathJoin(OutputDir, DeclaredPatterns[i].v), PyNone)
        /\ Len(call.result.rendered) <= Len(PresentPatterns)
        /\ \A i \in 1..Len(call.result.rendered) : call.result.rendered[i] = PresentPatterns[i].v
        /\ IF \A i \in 1..Len(PresentPatterns) :
                 store[call.path].sources[PresentPatterns[i].v].raises = "none"
           THEN /\ call.result.exc = "none"
                /\ Len(call.result.rendered) = Len(PresentPatterns)
                /\ Keys(call.result.val)
                       = {PathJoin(OutputDir, PresentPatterns[i].v) : i \in 1..Len(PresentPatterns)}
           ELSE /\ call.result.exc # "none"
                /\ store[call.path].sources[call.result.rendered[Len(call.result.rendered)]].raises
                       # "none"

\* base declares Dockerfile and app.conf and has only app.conf: the call
\* returns and writes app.conf alone, into an output directory it creates
MissingSourceIsSkippedWitness ==
    /\ Generated /\ call.path = "base" /\ ~call.dry_run
    /\ DeclaredPatterns = <<PyStr("Dockerfile"), PyStr("app.conf")>>
    /\ DOMAIN store["base"].sources = {"app.conf"}
    /\ call.result.exc = "none"
    /\ call.result.rendered = <<"app.conf">>
    /\ Keys(call.result.val) = {PathJoin(OutputDir, "app.conf")}
    /\ call.disk_before = PyDict(<<>>)
    /\ Keys(disk) = {OutputDir, PathJoin(OutputDir, "app.conf")}

\* the value x that the source of a rendered file found under the name n is
\* a declared one: the provided value, or else the default, and
\* _validate_parameter raises nothing on it
IsValidatedValue(n, x) ==
    /\ HasKey(RequestedParameters, n)
    /\ x = IF HasKey(OrEmpty(call.parameters), n) THEN Get(OrEmpty(call.parameters), n)
           ELSE GetOr(Get(RequestedParameters, n), "default", Undefined)
    /\ _validate_parameter(n, x, Get(RequestedParameters, n)).exc = "none"

\* the value x is the one generate_template injects under the name n
IsInjectedValue(n, x) ==
    /\ n \in ReservedKeys
    /\ x = CASE n = "template_name" -> Get(call.result.metadata, "name")
             [] n = "template_version" -> Get(call.result.metadata, "version")
             [] n = "generated_at" -> PyStr(call.now)
             [] n = "generated_by" -> PyStr("container-template-engine")

(* C28: every name that has a value in a file generate_template rendered is *)
(* an injected key with the injected value, or a parameter the resolved     *)
(* template declares with its provided or default value, on which           *)
(* _validate_parameter raises nothing; a name the caller provides and the   *)
(* template does not declare is undefined in every rendered file, and the   *)
(* call does not fail for it.                                               *)
OnlyDeclaredParametersAreRendered ==
    (Generated /\ call.result.exc = "none") =>
        /\ \A f \in Keys(call.result.val) :
              \A n \in DOMAIN Get(call.result.val, f).values :
                 \/ Get(call.result.val, f).values[n] = Undefined
                 \/ IsInjectedValue(n, Get(call.result.val, f).values[n])
                 \/ IsValidatedValue(n, Get(call.result.val, f).values[n])
        /\ \A f \in Keys(call.result.val) :
              \A n \in DOMAIN Get(call.result.val, f).values :
                 (n \notin Keys(RequestedParameters) \cup ReservedKeys)
                     => Get(call.result.val, f).values[n] = Undefined

\* base declares log_level and port with defaults; the caller provides
\* log_level and the undeclared extra: the Dockerfile is rendered with the
\* provided log_level, the default port, and no value for extra
OnlyDeclaredParametersAreRenderedWitness ==
    /\ Generated /\ call.path = "base" /\ call.result.exc = "none"
    /\ call.parameters = PyDict(<<<<"log_level", PyStr("info")>>, <<"extra", PyStr("abc")>>>>)
    /\ Keys(RequestedParameters) = {"log_level", "port"}
    /\ HasKey(call.result.val, PathJoin(OutputDir, "Dockerfile"))
    /\ GetOr(call.result.val, PathJoin(OutputDir, "Dockerfile"), PyNone).values
           = [n \in {"port", "log_level", "template_name", "extra"} |->
                 CASE n = "port" -> PyInt(3000)
                   [] n = "log_level" -> PyStr("info")
                   [] n = "template_name" -> PyStr("base")
                   [] n = "extra" -> Undefined]

(* C20: when the rendering of a declared file fails, generate_template      *)
(* raises a render error whose message names the file and the template, and *)
(* no file declared after the failing one is rendered or written.           *)
RenderErrorNamesFileAndTemplate ==
    (/\ Generated
     /\ Resolved
     /\ \A i \in 1..Len(RequestedParameters.v) : ~ParameterFails(i)
     /\ \A i \in 1..Len(DeclaredPatterns) : DeclaredPatterns[i].t = "str") =>
        \A i \in 1..Len(PresentPatterns) :
            (/\ store[call.path].sources[PresentPatterns[i].v].raises # "none"
             /\ \A j \in 1..(i - 1) : store[call.path].sources[PresentPatterns[j].v].raises = "none")
                => /\ call.result.exc = "TemplateError"
                   /\ {PresentPatterns[i].v, call.path} \subseteq call.result.names
                   /\ call.result.rendered = [j \in 1..i |-> PresentPatterns[j].v]
                   /\ \A j \in (i + 1)..Len(PresentPatterns) :
                         GetOr(disk, PathJoin(OutputDir, PresentPatterns[j].v), PyNone)
                             = GetOr(call.disk_before, PathJoin(OutputDir, PresentPatterns[j].v), PyNone)

---------------------------------------------------------------------------
(* Claims about two generate_template calls, under SpecRepeat *)

\* a second call was made; FirstCall is the record of the one before it
SecondCalled == call.op = "generate_template" /\ call.earlier # <<>>

FirstCall == call.earlier[1]

\* a rendered content without the text that comes from generated_at
MaskTimestamp(content) ==
    [content EXCEPT !.values = [n \in DOMAIN @ |-> IF n = "generated_at" THEN Undefined ELSE @[n]]]

MaskedMapping(val) ==
    IF val = PyNone THEN PyNone
    ELSE PyDict([i \in 1..Len(val.v) |-> <<val.v[i][1], MaskTimestamp(val.v[i][2])>>])

(* C13: a call with dry_run set and a call without it, for the same         *)
(* template, destination and parameters, return the same mapping, apart     *)
(* from text derived from the injected timestamp (or fail alike); only the  *)
(* call without dry_run writes.                                             *)
DryRunReturnsSameMapping ==
    (/\ SecondCalled
     /\ call.path = FirstCall.path
     /\ call.parameters = FirstCall.parameters
     /\ call.dry_run # FirstCall.dry_run)
        => /\ call.result.exc = FirstCall.result.exc
           /\ MaskedMapping(call.result.val) = MaskedMapping(FirstCall.result.val)
           /\ call.dry_run => disk = call.disk_before
           /\ FirstCall.dry_run => call.disk_before = FirstCall.disk_before

\* base generated as a dry run and then for real at another time, both with
\* log_level "info": the mappings differ in the timestamp only, and only the
\* second call wrote
DryRunReturnsSameMappingWitness ==
    /\ SecondCalled /\ call.path = "base" /\ FirstCall.path = "base"
    /\ call.parameters = PyDict(<<<<"log_level", PyStr("info")>>>>)
    /\ FirstCall.parameters = call.parameters
    /\ FirstCall.dry_run /\ ~call.dry_run
    /\ call.result.exc = "none"
    /\ Keys(call.result.val) = {PathJoin(OutputDir, "Dockerfile"), PathJoin(OutputDir, "app.conf")}
    /\ call.result.val # FirstCall.result.val
    /\ MaskedMapping(call.result.val) = MaskedMapping(FirstCall.result.val)
    /\ disk # call.disk_before

(* C14: the second of two generate_template calls on one store with the     *)
(* same template and parameters returns, for every output file, the content *)
(* the first returned, apart from text derived from the injected timestamp, *)
(* whatever the cache and the output tree hold by then; and what a call     *)
(* writes is what it returns.                                               *)
SameRequestSameContent ==
    SecondCalled =>
        /\ (call.path = FirstCall.path /\ call.parameters = FirstCall.parameters)
              => /\ call.result.exc = FirstCall.result.exc
                 /\ MaskedMapping(call.result.val) = MaskedMapping(FirstCall.result.val)
        /\ (call.result.exc = "none" /\ ~call.dry_run)
              => \A f \in Keys(call.result.val) :
                    HasKey(disk, f) /\ Get(disk, f) = Get(call.result.val, f)

\* app generated twice for real with the same parameters: the second call
\* finds base and app in the cache and the first call's Dockerfile in the
\* output tree, and renders the same Dockerfile
SameRequestSameContentWitness ==
    /\ SecondCalled /\ call.path = "app" /\ FirstCall.path = "app"
    /\ call.parameters = FirstCall.parameters
    /\ ~call.dry_run /\ ~FirstCall.dry_run
    /\ call.now # FirstCall.now
    /\ call.result.exc = "none"
    /\ Keys(call.cache_before) = {"app", "base"}
    /\ FirstCall.cache_before = PyDict(<<>>)
    /\ Keys(call.result.val) = {PathJoin(OutputDir, "Dockerfile")}
    /\ call.result.val = FirstCall.result.val
    /\ Get(call.disk_before, PathJoin(OutputDir, "Dockerfile"))
           = Get(call.result.val, PathJoin(OutputDir, "Dockerfile"))

---------------------------------------------------------------------------
(* Claims about inherited file groups, under SpecInherit *)

\* the declared path p has an entry in the mapping of the call
HasEntry(p) == call.result.val # PyNone /\ HasKey(call.result.val, PathJoin(OutputDir, p))

\* p is among the sources whose rendering the call began
WasRendered(p) == \E i \in 1..Len(call.result.rendered) : call.result.rendered[i] = p

(* C29: generate_template and validate_template look for every declared     *)
(* path, inherited ones included, in the directory of the template they are *)
(* called for: a declared path without a source there is not rendered, has  *)
(* no entry in the mapping of generate_template and no file written, and is *)
(* reported as a missing required file by validate_template, whatever the   *)
(* directories of the ancestors hold; and a file that is rendered is        *)
(* rendered from the source in that directory.                              *)
InheritedPathsAreLookedUpInOwnDirectory ==
    (call.op \in {"generate_template", "validate_template"} /\ Resolved) =>
        \A i \in 1..Len(DeclaredPatterns) :
            IF DeclaredPatterns[i].v \notin DOMAIN store[call.path].sources
            THEN /\ ~WasRendered(DeclaredPatterns[i].v)
                 /\ call.op = "generate_template"
                       => /\ ~HasEntry(DeclaredPatterns[i].v)
                          /\ ~HasKey(disk, PathJoin(OutputDir, DeclaredPatterns[i].v))
                 /\ call.op = "validate_template"
                       => \E j \in 1..Len(call.result.errors) :
                             call.result.errors[j] = MissingFileError(DeclaredPatterns[i].v)
            ELSE /\ call.op = "validate_template"
                       => /\ WasRendered(DeclaredPatterns[i].v)
                          /\ \A j \in 1..Len(call.result.errors) :
                                call.result.errors[j] # MissingFileError(DeclaredPatterns[i].v)
                 /\ (call.op = "generate_template" /\ HasEntry(DeclaredPatterns[i].v))
                       => /\ Get(call.result.val, PathJoin(OutputDir, DeclaredPatterns[i].v)).template
                                 = PathJoin(call.path, DeclaredPatterns[i].v)
                          /\ DOMAIN Get(call.result.val, PathJoin(OutputDir, DeclaredPatterns[i].v)).values
                                 = store[call.path].sources[DeclaredPatterns[i].v].uses

\* app inherits Dockerfile and app.conf from base, which has both sources;
\* app's directory has a Dockerfile of its own and no app.conf: generating
\* app renders app's Dockerfile alone
InheritedPathsAreLookedUpInOwnDirectoryWitness ==
    /\ call.op = "generate_template" /\ call.path = "app" /\ ~call.dry_run
    /\ call.result.exc = "none"
    /\ ~HasKey(store["app"].yaml, "files")
    /\ DeclaredPatterns = <<PyStr("Dockerfile"), PyStr("app.conf")>>
    /\ DOMAIN store["base"].sources = {"Dockerfile", "app.conf"}
    /\ DOMAIN store["app"].sources = {"Dockerfile"}
    /\ Keys(call.result.val) = {PathJoin(OutputDir, "Dockerfile")}
    /\ DOMAIN Get(call.result.val, PathJoin(OutputDir, "Dockerfile")).values = {"port"}
    /\ ~HasKey(disk, PathJoin(OutputDir, "app.conf"))

---------------------------------------------------------------------------
(* Claims about the generate command, under SpecCommand *)

\* the command called the engine
EngineCalled == call.op \in {"main", "cmd_generate"} /\ call.done /\ call.result.passed # PyNone

\* what a --param argument of the form key=value means
OverrideKey(param) ==
    CASE param = "port=80" -> "port"
      [] param \in {"log_level=info", "log_level=debug"} -> "log_level"
      [] param = "extra=a=b" -> "extra"

OverrideValue(param) ==
    CASE param = "port=80" -> "80"
      [] param = "log_level=info" -> "info"
      [] param = "log_level=debug" -> "debug"
      [] param = "extra=a=b" -> "a=b"

\* the last --param argument that gives key k
LastOverride(k) ==
    call.args.param[CHOOSE i \in 1..Len(call.args.param) :
                        /\ OverrideKey(call.args.param[i]) = k
                        /\ \A j \in (i + 1)..Len(call.args.param) :
                              OverrideKey(call.args.param[j]) # k]

(* C23: the parameters the generate command passes to the engine have the   *)
(* keys of the parameter file and of the key=value arguments; a key given   *)
(* as key=value has the value of the last argument that gives it, whatever  *)
(* the file says; a key only in the file has the file's value.              *)
OverridesOverlayParameterFile ==
    EngineCalled =>
        /\ Keys(call.result.passed)
               = Keys(OrEmpty(call.args.params))
                 \cup {OverrideKey(call.args.param[i]) : i \in 1..Len(call.args.param)}
        /\ \A k \in Keys(call.result.passed) :
              IF \E i \in 1..Len(call.args.param) : OverrideKey(call.args.param[i]) = k
              THEN Get(call.result.passed, k) = PyStr(OverrideValue(LastOverride(k)))
              ELSE Get(call.result.passed, k) = Get(call.args.params, k)

\* the file gives log_level debug and port 3000, the command line --param
\* log_level=debug --param log_level=info: the last argument wins over the
\* first and over the file, and port stays as the file has it
OverridesOverlayParameterFileWitness ==
    /\ EngineCalled
    /\ call.args.params = PyDict(<<<<"log_level", PyStr("debug")>>, <<"port", PyInt(3000)>>>>)
    /\ call.args.param = <<"log_level=debug", "log_level=info">>
    /\ call.result.passed = PyDict(<<<<"log_level", PyStr("info")>>, <<"port", PyInt(3000)>>>>)
    /\ call.result.exit = 0

---------------------------------------------------------------------------
(* Claims about the objects of the engine, under SpecObjects *)

(* C24: every object that load_template_metadata returned, the mappings     *)
(* nested in it included, holds what it held when it was returned, whatever *)
(* calls of resolve_inheritance, generate_template and validate_template    *)
(* followed; every entry of the cache refers to such an object, which holds *)
(* the declaration of the template the key names; and what                  *)
(* resolve_inheritance returns for a template with a parent is an object    *)
(* that was not loaded and has no parent reference.                         *)
LoadedDefinitionsAreImmutable ==
    /\ \A id \in 1..Len(heap.objs) :
          heap.frozen[id] # PyNone => heap.objs[id] = heap.frozen[id]
    /\ \A template_path \in Keys(cache) :
          /\ heap.frozen[Get(cache, template_path).v] # PyNone
          /\ Deref(heap.objs, Get(cache, template_path)) = store[template_path].yaml
    /\ (call.op = "resolve_inheritance" /\ call.result.exc = "none")
          => /\ Deref(heap.objs, call.result.val) = resolve_inheritance(store, call.path, 1).val
             /\ HasKey(store[call.path].yaml, "inherits")
                   => /\ heap.frozen[call.result.val.v] = PyNone
                      /\ ~HasKey(heap.objs[call.result.val.v], "inherits")

\* app inherits mid, mid inherits base, mid and base both declare log_level:
\* after resolve_inheritance of app the merged parameters are a new object,
\* the loaded mid still names its parent and the loaded base still has its
\* own log_level
LoadedDefinitionsAreImmutableWitness ==
    /\ call.op = "resolve_inheritance" /\ call.path = "app" /\ call.result.exc = "none"
    /\ Keys(cache) = {"app", "mid", "base"}
    /\ HasKey(heap.objs[Get(cache, "mid").v], "inherits")
    /\ HasKey(heap.objs[Get(cache, "app").v], "inherits")
    /\ HasKey(heap.objs[Get(cache, "mid").v], "parameters")
    /\ Get(heap.objs[call.result.val.v], "parameters")
           # Get(heap.objs[Get(cache, "base").v], "parameters")
    /\ Get(Get(Get(Deref(heap.objs, call.result.val), "parameters"), "log_level"), "default")
           = PyStr("debug")
    /\ Get(Get(Get(Deref(heap.objs, Get(cache, "base")), "parameters"), "log_level"), "default")
           = PyStr("info")

---------------------------------------------------------------------------
(* Claims about concurrent load_template_metadata calls, under              *)
(* SpecConcurrent                                                           *)

\* every entry of the cache is a whole declaration, the one of the template
\* its key names, and the schema admits it
EntriesAreValidated ==
    \A template_path \in Keys(cache) :
        /\ Deref(heap.objs, Get(cache, template_path)) = store[template_path].yaml
        /\ IsValid(store[template_path].yaml, _get_template_schema)

(* C25: under any interleaving of load_template_metadata calls on one       *)
(* engine, every entry of the cache is at every moment a complete,          *)
(* schema-validated definition of the template its key names, and an entry  *)
(* once populated is not assigned again: it refers to the same object ever  *)
(* after.                                                                   *)
CacheIsReadOnlyOncePopulated ==
    [][/\ EntriesAreValidated'
       /\ \A template_path \in Keys(cache) :
             /\ HasKey(cache', template_path)
             /\ Get(cache', template_path) = Get(cache, template_path)]_vars

---------------------------------------------------------------------------
(* Claims about validate_template, under SpecValidate *)

(* C15: validate_template on a template that resolves reports one           *)
(* missing-file error for each declared file that is missing, begins the    *)
(* rendering of every declared file that is there, and reports an error for *)
(* every one of them that fails to render.                                  *)
ValidateReportsEveryDefect ==
    (/\ call.op = "validate_template"
     /\ Resolved
     /\ \A i \in 1..Len(DeclaredPatterns) : DeclaredPatterns[i].t = "str") =>
        LET IsMissingFileError(e) == e.kind = "Required file missing"
            IsMissing(pattern) == pattern.v \notin DOMAIN store[call.path].sources
            IsThere(pattern) == pattern.v \in DOMAIN store[call.path].sources
        IN /\ SelectSeq(call.result.errors, IsMissingFileError)
                  = [i \in 1..Len(SelectSeq(DeclaredPatterns, IsMissing)) |->
                        MissingFileError(SelectSeq(DeclaredPatterns, IsMissing)[i].v)]
           /\ call.result.rendered
                  = [i \in 1..Len(SelectSeq(DeclaredPatterns, IsThere)) |->
                        SelectSeq(DeclaredPatterns, IsThere)[i].v]
           /\ \A i \in 1..Len(DeclaredPatterns) :
                 (/\ IsThere(DeclaredPatterns[i])
                  /\ store[call.path].sources[DeclaredPatterns[i].v].raises # "none")
                    => \E j \in 1..Len(call.result.errors) :
                          call.result.errors[j].file = DeclaredPatterns[i].v

\* the call reports that exc was raised
Reports(exc) ==
    \E i \in 1..Len(call.result.errors) : call.result.errors[i] = ValidationFailed(exc)

(* C27: validate_template raises nothing: a missing declaration, a schema   *)
(* violation, a failure while resolving an ancestor (a parent that is       *)
(* missing or invalid, a chain that never ends) and an exception other than *)
(* a TemplateError raised while rendering are reported in the errors of the *)
(* result; and in every result valid is true exactly when errors is empty.  *)
ValidateNeverRaises ==
    call.op = "validate_template" =>
        /\ call.result.raised = "none"
        /\ call.result.valid <=> call.result.errors = <<>>
        /\ resolve_inheritance(store, call.path, 1).exc # "none"
              => Reports(resolve_inheritance(store, call.path, 1).exc)
        /\ (/\ Resolved
            /\ Len(call.result.rendered) > 0
            /\ store[call.path].sources[call.result.rendered[Len(call.result.rendered)]].raises
                   \notin {"none", "TemplateError"})
              => Reports(store[call.path].sources[call.result.rendered[Len(call.result.rendered)]].raises)

\* app inherits base and base's declaration has no category: validating app
\* returns a result that is not valid and reports the ValidationError
ValidateNeverRaisesWitness ==
    /\ call.op = "validate_template" /\ call.path = "app"
    /\ store["base"] = InvalidBase
    /\ call.result.raised = "none"
    /\ ~call.result.valid
    /\ call.result.errors = <<ValidationFailed("ValidationError")>>
    /\ call.result.metadata = PyNone

---------------------------------------------------------------------------
(* Claims about load_template_metadata, under Spec *)

LoadCalled == call.op = "load_template_metadata" /\ store[call.path].t = "dir"

Categories == {"app", "database", "infrastructure", "microservice", "base"}

\* the declaration lacks a required field, or has a category outside the
\* enum, or a parameter spec without type or description
Defective(decl) ==
    \/ \E k \in {"name", "version", "description", "category"} : ~HasKey(decl, k)
    \/ Get(decl, "category").v \notin Categories
    \/ \E p \in Keys(ParametersOf(decl)) :
          \/ ~IsDict(Get(ParametersOf(decl), p))
          \/ ~HasKey(Get(ParametersOf(decl), p), "type")
          \/ ~HasKey(Get(ParametersOf(decl), p), "description")

(* C16: load_template_metadata raises a ValidationError on every            *)
(* declaration that lacks name, version, description or category, or has a  *)
(* category outside the enum, or has a parameter spec without type or       *)
(* description; and such a declaration is not in the cache.                 *)
DefectiveDeclarationIsRejected ==
    (LoadCalled /\ Defective(store[call.path].yaml))
        => /\ call.result.exc = "ValidationError"
           /\ ~HasKey(cache, call.path)

\* a string, or a list of strings
IsStringOrStrings(x) ==
    \/ x.t = "str"
    \/ x.t = "list" /\ \A i \in 1..Len(x.v) : x.v[i].t = "str"

(* C17: of the declarations with a files section that are valid in every    *)
(* other respect, load_template_metadata accepts exactly those in which     *)
(* every file group, whatever its name, is a string or a list of strings.   *)
FileGroupsAreStringsOrLists ==
    (/\ LoadCalled
     /\ HasKey(store[call.path].yaml, "files")
     /\ IsDict(Get(store[call.path].yaml, "files"))
     /\ HasKey(Get(store[call.path].yaml, "files"), "dockerfile")
     /\ IsValid(Pop(store[call.path].yaml, "files"), _get_template_schema))
        => (call.result.exc = "none"
               <=> \A g \in Keys(Get(store[call.path].yaml, "files")) :
                      IsStringOrStrings(Get(Get(store[call.path].yaml, "files"), g)))

---------------------------------------------------------------------------
(* Inputs of the merge specification: dicts nested to three levels *)

Leaves == {PyStr("a"), PyStr("b")}

Lists == {PyList(<<PyStr("x")>>), PyList(<<PyStr("y")>>)}

\* the dicts holding k1 (with a value of vals1) or not, then k2 (of vals2) or not
DictsOver(k1, vals1, k2, vals2) ==
    {PyDict(<<>>)}
    \cup {PyDict(<<<<k1, x>>>>) : x \in vals1}
    \cup {PyDict(<<<<k2, y>>>>) : y \in vals2}
    \cup {PyDict(<<<<k1, x>>, <<k2, y>>>>) : x \in vals1, y \in vals2}

InnerDicts == DictsOver("default", Leaves, "type", Leaves)

MidDicts == DictsOver("p", {PyStr("a")} \cup InnerDicts, "q", {PyStr("a"), PyDict(<<>>)})

OuterDicts == DictsOver("parameters", {PyStr("a")} \cup MidDicts, "tags", Lists)

InitMerge ==
    /\ store = <<>>
    /\ cache = PyDict(<<>>)
    /\ heap = <<>>
    /\ disk = PyDict(<<>>)
    /\ \E base \in OuterDicts, override \in OuterDicts :
          call = [op |-> "_deep_merge", done |-> FALSE, base |-> base,
                  override |-> override, result |-> PyNone]

DeepMergeCall ==
    /\ call.op = "_deep_merge" /\ ~call.done
    /\ call' = [call EXCEPT !.done = TRUE, !.result = _deep_merge(call.base, call.override)]
    /\ UNCHANGED <<store, cache, disk, heap>>

NextMerge == DeepMergeCall

SpecMerge == InitMerge /\ [][NextMerge]_vars

(* C2: the merge of P and C has exactly the keys of P and of C, and at each *)
(* key k: the recursive merge of P[k] and C[k] when both are mappings, C[k] *)
(* when k is in C and either value is not a mapping (lists are replaced,    *)
(* never unioned), and P[k] when k is only in P.                            *)
RECURSIVE MergeContract(_, _, _)
MergeContract(P, C, R) ==
    /\ IsDict(R)
    /\ Keys(R) = Keys(P) \cup Keys(C)
    /\ Len(R.v) = Cardinality(Keys(R))
    /\ \A k \in Keys(R) :
          IF HasKey(P, k) /\ HasKey(C, k) /\ IsDict(Get(P, k)) /\ IsDict(Get(C, k))
          THEN MergeContract(Get(P, k), Get(C, k), Get(R, k))
          ELSE IF HasKey(C, k) THEN Get(R, k) = Get(C, k)
          ELSE Get(R, k) = Get(P, k)

DeepMergeIsFieldLevel ==
    (call.op = "_deep_merge" /\ call.done)
        => MergeContract(call.base, call.override, call.result)

\* a merge that recursed two levels down, replaced a list and kept a parent-only key
DeepMergeWitness ==
    /\ call.op = "_deep_merge" /\ call.done
    /\ call.base = PyDict(<<<<"parameters", PyDict(<<<<"p", PyDict(<<<<"default", PyStr("a")>>,
                              <<"type", PyStr("a")>>>>)>>, <<"q", PyStr("a")>>>>)>>,
                            <<"tags", PyList(<<PyStr("x")>>)>>>>)
    /\ call.override = PyDict(<<<<"parameters", PyDict(<<<<"p", PyDict(<<<<"default", PyStr("b")>>>>)>>>>)>>,
                                <<"tags", PyList(<<PyStr("y")>>)>>>>)
    /\ call.result = PyDict(<<<<"parameters", PyDict(<<<<"p", PyDict(<<<<"default", PyStr("b")>>,
                                <<"type", PyStr("a")>>>>)>>, <<"q", PyStr("a")>>>>)>>,
                              <<"tags", PyList(<<PyStr("y")>>)>>>>)

---------------------------------------------------------------------------
(* TemplateTestFramework of template_testing.py: run_template_tests and the *)
(* tests it awaits                                                          *)

TestResult(name, status) == [name |-> name, status |-> status]

\* tempfile.TemporaryDirectory(): a fresh directory, removed on exit
TempDir == "tmp"

\* _test_validation
_test_validation(st, template_path) ==
    LET validation_results == validate_template(st, template_path)
    IN IF validation_results.raised # "none" THEN TestResult("validation", "failed")
       ELSE IF validation_results.valid THEN TestResult("validation", "passed")
       ELSE TestResult("validation", "failed")

\* the loops of _test_template_syntax: get_template and render under the
\* inner try, the path arithmetic under the outer one
RECURSIVE SyntaxStatus(_, _, _)
SyntaxStatus(sources, patterns, errors) ==
    IF patterns = <<>> THEN (IF errors = <<>> THEN "passed" ELSE "failed")
    ELSE IF Head(patterns).t # "str" THEN "failed"
    ELSE IF Head(patterns).v \notin DOMAIN sources
    THEN SyntaxStatus(sources, Tail(patterns), errors)
    ELSE SyntaxStatus(sources, Tail(patterns),
                      IF sources[Head(patterns).v].raises # "none"
                      THEN Append(errors, Head(patterns).v) ELSE errors)

\* _test_template_syntax
_test_template_syntax(st, template_path) ==
    LET resolved == resolve_inheritance(st, template_path, 1)
    IN IF resolved.exc # "none" THEN TestResult("syntax", "failed")
       ELSE TestResult("syntax",
                       SyntaxStatus(SourcesOf(st, template_path),
                                    AllPatterns(GetOr(resolved.val, "files", PyDict(<<>>)), 1),
                                    <<>>))

\* _test_template_generation
_test_template_generation(st, template_path, test_params, now) ==
    LET generated_files == generate_template(st, PyDict(<<>>), template_path, TempDir,
                                             test_params, FALSE, now)
    IN IF generated_files.exc # "none" THEN TestResult("generation", "failed")
       ELSE IF generated_files.val.v # <<>> THEN TestResult("generation", "passed")
       ELSE TestResult("generation", "failed")

\* file_path.endswith(suffix)
EndsWith(file_path, suffix) ==
    /\ Len(Chars(file_path)) >= Len(Chars(suffix))
    /\ SubSeq(Chars(file_path), Len(Chars(file_path)) - Len(Chars(suffix)) + 1,
              Len(Chars(file_path))) = Chars(suffix)

\* the loop over generated_files: the first key that ends with "Dockerfile",
\* or None
RECURSIVE FindDockerfile(_, _)
FindDockerfile(generated_files, i) ==
    IF i > Len(generated_files.v) THEN PyNone
    ELSE IF EndsWith(generated_files.v[i][1], "Dockerfile") THEN PyStr(generated_files.v[i][1])
    ELSE FindDockerfile(generated_files, i + 1)

\* what a subprocess.run gives: it raises, or returns a code and an output
Completed(returncode, stdout) == [exc |-> "none", returncode |-> returncode, stdout |-> stdout]

SubprocessOutcomes ==
    {Completed(0, ""), Completed(0, "3f2a"), Completed(1, ""),
     [exc |-> "TimeoutExpired", returncode |-> 0, stdout |-> ""],
     [exc |-> "FileNotFoundError", returncode |-> 0, stdout |-> ""]}

\* _test_docker_build, with what docker build did
_test_docker_build(st, template_path, test_params, now, result) ==
    LET generated_files == generate_template(st, PyDict(<<>>), template_path, TempDir,
                                             test_params, FALSE, now)
    IN IF generated_files.exc # "none" THEN TestResult("build", "failed")
       ELSE IF FindDockerfile(generated_files.val, 1) = PyNone THEN TestResult("build", "skipped")
       ELSE IF result.exc # "none" THEN TestResult("build", "failed")
       ELSE IF result.returncode = 0 THEN TestResult("build", "passed")
       ELSE TestResult("build", "failed")

\* _test_docker_runtime, with what docker build, docker run and docker ps did
_test_docker_runtime(st, template_path, test_params, now, build_result, run_result, check_result) ==
    LET generated_files == generate_template(st, PyDict(<<>>), template_path, TempDir,
                                             test_params, FALSE, now)
    IN IF generated_files.exc # "none" THEN TestResult("runtime", "failed")
       ELSE IF FindDockerfile(generated_files.val, 1) = PyNone THEN TestResult("runtime", "skipped")
       ELSE IF build_result.exc # "none" \/ build_result.returncode # 0
       THEN TestResult("runtime", "failed")
       ELSE IF run_result.exc # "none" \/ run_result.returncode # 0
       THEN TestResult("runtime", "failed")
       ELSE IF check_result.exc # "none" THEN TestResult("runtime", "failed")
       ELSE IF check_result.stdout # "" THEN TestResult("runtime", "passed")
       ELSE TestResult("runtime", "failed")

\* metadata.get("testing", {}).get(key, dflt): a section that is no mapping
\* has no get
TestingOf(metadata, key, dflt) ==
    IF GetOr(metadata, "testing", PyDict(<<>>)).t # "dict" THEN Raise("AttributeError")
    ELSE Ok(GetOr(GetOr(metadata, "testing", PyDict(<<>>)), key, dflt))

\* _test_health_check
_test_health_check(st, template_path) ==
    LET resolved == resolve_inheritance(st, template_path, 1)
        health_check_cmd == TestingOf(resolved.val, "health_check", PyNone)
    IN IF resolved.exc # "none" THEN TestResult("health_check", "failed")
       ELSE IF health_check_cmd.exc # "none" THEN TestResult("health_check", "failed")
       ELSE IF health_check_cmd.val \in {PyNone, PyStr("")}
       THEN TestResult("health_check", "skipped")
       ELSE TestResult("health_check", "passed")

\* f"integration_{i}"
IntegrationName(i) == "integration_" \o ToString(i)

\* _test_integration: one result for each declared command
_test_integration(st, template_path) ==
    LET resolved == resolve_inheritance(st, template_path, 1)
        integration_tests == TestingOf(resolved.val, "integration_tests", PyList(<<>>))
    IN IF resolved.exc # "none" THEN <<TestResult("integration_setup", "failed")>>
       ELSE IF integration_tests.exc # "none" \/ integration_tests.val.t # "list"
       THEN <<TestResult("integration_setup", "failed")>>
       ELSE [i \in 1..Len(integration_tests.val.v) |-> TestResult(IntegrationName(i - 1), "passed")]

\* _test_performance
_test_performance ==
    <<TestResult("performance_build_time", "passed"),
      TestResult("performance_image_size", "passed")>>

\* sum(1 for r in results if r.status == status)
CountStatus(results, status) ==
    Cardinality({i \in 1..Len(results) : results[i].status = status})

\* the summary and the TestSuite that run_template_tests returns
TestSuite(template_path, results) ==
    [template_name |-> template_path, total_tests |-> Len(results),
     passed |-> CountStatus(results, "passed"), failed |-> CountStatus(results, "failed"),
     skipped |-> CountStatus(results, "skipped"), results |-> results]

\* a framework that goes on to the runtime tests unless the build failed
BuildNotFailed(build_result) == build_result.status # "failed"

\* if build_result.status == "passed"
BuildPassed(build_result) == build_result.status = "passed"

\* where run_template_tests goes after the health check, and after the
\* integration tests
AfterHealthCheck(c) ==
    IF c.include_integration THEN "integration"
    ELSE IF c.include_performance THEN "performance" ELSE "summary"

AfterIntegration(c) == IF c.include_performance THEN "performance" ELSE "summary"

---------------------------------------------------------------------------
(* Inputs of the test-framework specification: base with or without a       *)
(* testing section and a Dockerfile, app on top of it or absent, Docker     *)
(* there or not                                                             *)

MaxTests == 2

\* "test 0", "test 1", ...
TestCommands(n) == [i \in 1..n |-> PyStr("test " \o ToString(i - 1))]

TestingSections ==
    {<<>>,
     <<<<"testing", PyDict(<<<<"health_check", PyStr("curl localhost")>>>>)>>>>,
     <<<<"testing", PyDict(<<<<"health_check", PyStr("")>>,
                            <<"integration_tests", PyList(TestCommands(1))>>>>)>>>>,
     <<<<"testing", PyDict(<<<<"integration_tests", PyList(TestCommands(MaxTests))>>>>)>>>>}

TestBaseDir(parameters, testing, sources) ==
    TemplateDirWith(PyDict(Header("base", "base") \o
                           <<<<"parameters", PyDict(parameters)>>, <<"files", GenFiles>>>> \o
                           testing), sources)

TestStores ==
    StoresOf({TestBaseDir(parameters, testing, sources) :
                 parameters \in {DefaultedParameters,
                                 <<<<"log_level", LogLevelSpec>>, <<"port", RequiredPort>>>>},
                 testing \in TestingSections,
                 sources \in {BothSources(Dockerfile, AppConf), [f \in {"app.conf"} |-> AppConf],
                              BothSources(Dockerfile, BrokenSource)}}
             \cup {InvalidBase},
             {NoTemplate, AppOn("base")})

TestParameters == {PyNone, PyDict(<<<<"port", PyInt(80)>>>>)}

\* the framework is constructed, which runs _check_docker, and
\* run_template_tests is called: results = []
InitTests ==
    /\ store \in TestStores
    /\ cache = PyDict(<<>>)
    /\ heap = <<>>
    /\ disk = PyDict(<<>>)
    /\ \E docker_available \in BOOLEAN, template_path \in {"base", "app"},
          test_params \in TestParameters, include_integration \in BOOLEAN,
          include_performance \in BOOLEAN :
          call = [op |-> "run_template_tests", pc |-> "validation",
                  docker_available |-> docker_available, path |-> template_path,
                  test_params |-> test_params, include_integration |-> include_integration,
                  include_performance |-> include_performance, results |-> <<>>,
                  suite |-> PyNone]

\* results.append(result), and on to the next statement
Appended(result, pc) == [call EXCEPT !.results = Append(@, result), !.pc = pc]

\* the declarations an engine call on the template loads into the cache
LoadedBy(template_path) == resolve_inheritance(store, template_path, 1).loaded

TestValidation ==
    /\ call.pc = "validation"
    /\ call' = Appended(_test_validation(store, call.path), "syntax")
    /\ cache' = CacheAll(cache, store, LoadedBy(call.path))
    /\ UNCHANGED <<store, disk, heap>>

TestTemplateSyntax ==
    /\ call.pc = "syntax"
    /\ call' = Appended(_test_template_syntax(store, call.path), "generation")
    /\ cache' = CacheAll(cache, store, LoadedBy(call.path))
    /\ UNCHANGED <<store, disk, heap>>

\* the generation test, and the test of self.docker_available
TestTemplateGeneration ==
    /\ call.pc = "generation"
    /\ \E now \in Clock :
          call' = Appended(_test_template_generation(store, call.path, call.test_params, now),
                           IF call.docker_available THEN "build" ELSE "docker_check")
    /\ cache' = CacheAll(cache, store, LoadedBy(call.path))
    /\ UNCHANGED <<store, disk, heap>>

\* the build test, and the test of its status
TestDockerBuild ==
    /\ call.pc = "build"
    /\ \E now \in Clock, result \in SubprocessOutcomes :
          LET build_result == _test_docker_build(store, call.path, call.test_params, now, result)
          IN call' = Appended(build_result,
                              IF BuildPassed(build_result) THEN "runtime" ELSE "summary")
    /\ cache' = CacheAll(cache, store, LoadedBy(call.path))
    /\ UNCHANGED <<store, disk, heap>>

TestDockerRuntime ==
    /\ call.pc = "runtime"
    /\ \E now \in Clock, build_result \in SubprocessOutcomes, run_result \in SubprocessOutcomes,
          check_result \in SubprocessOutcomes :
          call' = Appended(_test_docker_runtime(store, call.path, call.test_params, now,
                                                build_result, run_result, check_result),
                           "health_check")
    /\ cache' = CacheAll(cache, store, LoadedBy(call.path))
    /\ UNCHANGED <<store, disk, heap>>

TestHealthCheck ==
    /\ call.pc = "health_check"
    /\ call' = Appended(_test_health_check(store, call.path), AfterHealthCheck(call))
    /\ cache' = CacheAll(cache, store, LoadedBy(call.path))
    /\ UNCHANGED <<store, disk, heap>>

\* results.extend(integration_results)
TestIntegration ==
    /\ call.pc = "integration"
    /\ call' = [call EXCEPT !.results = @ \o _test_integration(store, call.path),
                            !.pc = AfterIntegration(call)]
    /\ cache' = CacheAll(cache, store, LoadedBy(call.path))
    /\ UNCHANGED <<store, disk, heap>>

\* results.extend(performance_results)
TestPerformance ==
    /\ call.pc = "performance"
    /\ call' = [call EXCEPT !.results = @ \o _test_performance, !.pc = "summary"]
    /\ UNCHANGED <<store, cache, disk, heap>>

\* the else branch of the test of self.docker_available
DockerCheck ==
    /\ call.pc = "docker_check"
    /\ call' = Appended(TestResult("docker_check", "skipped"), "summary")
    /\ UNCHANGED <<store, cache, disk, heap>>

\* the summary is calculated and the suite returned
ReturnSuite ==
    /\ call.pc = "summary"
    /\ call' = [call EXCEPT !.suite = TestSuite(call.path, call.results), !.pc = "done"]
    /\ UNCHANGED <<store, cache, disk, heap>>

NextTests ==
    \/ TestValidation \/ TestTemplateSyntax \/ TestTemplateGeneration
    \/ TestDockerBuild \/ TestDockerRuntime \/ TestHealthCheck
    \/ TestIntegration \/ TestPerformance \/ DockerCheck \/ ReturnSuite

SpecTests == InitTests /\ [][NextTests]_vars

---------------------------------------------------------------------------
(* run_template_tests: order, gating and counts                             *)

FirstTests == <<"validation", "syntax", "generation">>

IntegrationNames == {IntegrationName(i) : i \in 0..(MaxTests - 1)} \cup {"integration_setup"}

PerformanceNames == {"performance_build_time", "performance_image_size", "performance_error"}

\* the results that need a built image
AfterBuildNames == {"runtime", "health_check"} \cup IntegrationNames \cup PerformanceNames

ResultsNamed(names) == {i \in 1..Len(call.results) : call.results[i].name \in names}

\* the three engine tests are the first three results, in that order, and
\* nothing else is recorded until they are
EngineTestsComeFirst ==
    /\ \A i \in 1..Len(call.results) :
          IF i <= Len(FirstTests) THEN call.results[i].name = FirstTests[i]
          ELSE call.results[i].name \notin {FirstTests[j] : j \in 1..Len(FirstTests)}
    /\ call.pc \notin {FirstTests[j] : j \in 1..Len(FirstTests)} =>
          Len(call.results) >= Len(FirstTests)

\* a result that needs a built image is there only with Docker available and
\* after a build result with status "passed"; the integration and the
\* performance results only when asked for
ImageTestsAreGated ==
    \A i \in ResultsNamed(AfterBuildNames) :
        /\ call.docker_available
        /\ i > Len(FirstTests) + 1
        /\ call.results[Len(FirstTests) + 1] = TestResult("build", "passed")
        /\ call.results[i].name \in IntegrationNames => call.include_integration
        /\ call.results[i].name \in PerformanceNames => call.include_performance

\* without Docker the suite has the docker_check result, once and skipped,
\* and no build, runtime or health-check result
DockerCheckStandsInForBuild ==
    /\ ~call.docker_available => ResultsNamed({"build", "runtime", "health_check"}) = {}
    /\ call.pc = "done" /\ ~call.docker_available =>
          /\ Cardinality(ResultsNamed({"docker_check"})) = 1
          /\ \A i \in ResultsNamed({"docker_check"}) : call.results[i].status = "skipped"

\* the returned suite counts the results recorded, each under one status
SuiteCountsAddUp ==
    call.pc = "done" =>
        /\ call.suite.results = call.results
        /\ call.suite.total_tests = Len(call.results)
        /\ call.suite.total_tests = call.suite.passed + call.suite.failed + call.suite.skipped

\* C30: in run_template_tests the validation, syntax and generation tests
\* always run, in that order, before any container build; the runtime,
\* health-check, integration and performance tests run only if Docker is
\* available and the build test passed (the last two only when requested);
\* without Docker exactly one skipped docker_check result is recorded and no
\* build, runtime or health-check result; and in the returned suite
\* total_tests = passed + failed + skipped
TestsAreOrderedGatedAndCounted ==
    /\ EngineTestsComeFirst
    /\ ImageTestsAreGated
    /\ DockerCheckStandsInForBuild
    /\ SuiteCountsAddUp

\* a suite returned with Docker available after the build passed, with the
\* runtime, health-check, integration and performance results in it, one of
\* each status among them
TestsAreOrderedGatedAndCountedWitness ==
    /\ call.pc = "done"
    /\ call.docker_available
    /\ call.results[Len(FirstTests) + 1] = TestResult("build", "passed")
    /\ ResultsNamed({"runtime"}) # {} /\ ResultsNamed({"health_check"}) # {}
    /\ ResultsNamed(IntegrationNames) # {} /\ ResultsNamed(PerformanceNames) # {}
    /\ call.suite.failed > 0 /\ call.suite.skipped > 0 /\ call.suite.passed > Len(FirstTests)

====
